---- MODULE Spec2Model ----
(***************************************************************************)
(* Portfolio analytics of the trading platform: the portfolio_event_ledger *)
(* table, the aggregation queries of TradingPlatformOperations, and the    *)
(* anomaly post-processing of the REST endpoints and of the agent tools.   *)
(*                                                                         *)
(* Quantities (shares, prices) are integers in the smallest unit the store *)
(* keeps.  Timestamps are integers counting ticks; TicksPerDay ticks make  *)
(* one day.  A quotient computed by the store is kept as the exact pair    *)
(* [num, den].  SQL NULL / Python None is the empty sequence, a present    *)
(* value v is <<v>>.                                                       *)
(***************************************************************************)
EXTENDS Integers, Sequences, FiniteSets, TLC

VARIABLES ledger, books, response, env, pool, pools, calls

vars == <<ledger, books, response, env, pool, pools, calls>>

(* The connection side of the service: whether the POSTGRES_* settings are *)
(* present, the _pool attribute of each TradingPlatformOperations          *)
(* instance, the pools created so far, and the requests in progress        *)
infra == <<env, pool, pools, calls>>

----------------------------------------------------------------------------
(* Bounds of the model: requests inserted after start-up, the greatest     *)
(* event_ts, shares and price_per_share of an inserted event, and the      *)
(* ticks that make one day                                                  *)

MaxInserts == 2

MaxTs == 1

MaxShares == 2

MaxPrice == 2

TicksPerDay == 2

(* Program constant: STALE_DAYS of the endpoint and of the tool *)
STALE_DAYS == 30

----------------------------------------------------------------------------
(* Value domains *)

(* Account ids, in ascending (ORDER BY account_id) order *)
AccountOrder == <<"A1", "A2">>

Accounts == {AccountOrder[k] : k \in DOMAIN AccountOrder}

AccountRank(a) == CHOOSE k \in DOMAIN AccountOrder : AccountOrder[k] = a

(* Ticker symbols, in ascending (ORDER BY ticker_symbol) order *)
TickerOrder == <<"AAPL", "MSFT">>

Tickers == {TickerOrder[k] : k \in DOMAIN TickerOrder}

TickerRank(t) == CHOOSE k \in DOMAIN TickerOrder : TickerOrder[k] = t

EventTypes == {"BUY", "SELL", "PRICE"}

NULL == <<>>

Some(v) == <<v>>

IsNull(x) == x = NULL

Val(x) == x[1]

(* The body of POST /events and the arguments of insert_trade_event *)
InsertEventRequest ==
    [account_id : Accounts, ticker_symbol : Tickers, event_ts : 0..MaxTs,
     event_type : EventTypes, shares : 1..MaxShares,
     price_per_share : 1..MaxPrice, currency : {"USD"}, source : {"api"}]

(* Wall-clock instants at which a request is evaluated: half a day before, *)
(* exactly, and one day after STALE_DAYS days past timestamp 0              *)
NowSet ==
    {STALE_DAYS * TicksPerDay - 1, STALE_DAYS * TicksPerDay,
     STALE_DAYS * TicksPerDay + TicksPerDay}

Row(req, id) ==
    [id |-> id, account_id |-> req.account_id, ticker_symbol |-> req.ticker_symbol,
     event_ts |-> req.event_ts, event_type |-> req.event_type, shares |-> req.shares,
     price_per_share |-> req.price_per_share, currency |-> req.currency,
     source |-> req.source]

(* The ledger the service finds at start-up, as load_csv.py left it: a    *)
(* long, priced position of account A1; account A2 and ticker MSFT have    *)
(* no row yet                                                               *)
SeedLedger ==
      << [id |-> 1, account_id |-> "A1", ticker_symbol |-> "AAPL", event_ts |-> 0,
          event_type |-> "BUY", shares |-> 1, price_per_share |-> 2,
          currency |-> "USD", source |-> "broker"],
         [id |-> 2, account_id |-> "A1", ticker_symbol |-> "AAPL", event_ts |-> 1,
          event_type |-> "PRICE", shares |-> 0, price_per_share |-> 1,
          currency |-> "USD", source |-> "broker"] >>

----------------------------------------------------------------------------
(* SQL building blocks, over a table T (a sequence of rows) *)

RECURSIVE SUM(_, _)
SUM(f, S) ==
    IF S = {} THEN 0
    ELSE LET i == CHOOSE x \in S : TRUE
         IN  f[i] + SUM(f, S \ {i})

RECURSIVE MAX(_, _)
MAX(f, S) ==
    LET i == CHOOSE x \in S : TRUE
    IN  IF S = {i} THEN f[i]
        ELSE LET m == MAX(f, S \ {i}) IN IF f[i] >= m THEN f[i] ELSE m

(* Mutant: the shares of a PRICE row are added like those of a BUY *)
NetSharesTerm_PriceCounted(r) ==
    IF r.event_type = "SELL" THEN 0 - r.shares ELSE r.shares

(* SUM(CASE WHEN BUY THEN shares WHEN SELL THEN -shares ELSE 0 END) *)
NetSharesTerm(r) ==
    IF r.event_type = "BUY" THEN r.shares
    ELSE IF r.event_type = "SELL" THEN 0 - r.shares
    ELSE 0

(* SUM(CASE WHEN BUY THEN shares*price WHEN SELL THEN -shares*price ELSE 0 END) *)
NetCostTerm(r) ==
    IF r.event_type = "BUY" THEN r.shares * r.price_per_share
    ELSE IF r.event_type = "SELL" THEN 0 - (r.shares * r.price_per_share)
    ELSE 0

(* SUM(CASE WHEN BUY THEN shares ELSE 0 END) *)
BuySharesTerm(r) == IF r.event_type = "BUY" THEN r.shares ELSE 0

(* SUM(CASE WHEN SELL THEN shares ELSE 0 END) *)
SellSharesTerm(r) == IF r.event_type = "SELL" THEN r.shares ELSE 0

(* Mutant: the highest price of the partition instead of the latest one *)
RowNumberOne_MaxPrice(T, part) ==
    {i \in part : \A j \in part : T[j].price_per_share <= T[i].price_per_share}

(* ROW_NUMBER() OVER (PARTITION ... ORDER BY event_ts DESC) = 1: the rows   *)
(* of a partition that can be numbered 1; rows sharing the greatest        *)
(* event_ts are numbered in an order the store chooses                      *)
RowNumberOne(T, part) ==
    {i \in part : \A j \in part : T[j].event_ts <= T[i].event_ts}

(* Mutant: the PRICE rows of every account are ranked *)
ranked_prices_AnyAccount(T, a) ==
    LET priced == {i \in DOMAIN T : T[i].event_type = "PRICE"}
        tks    == {T[i].ticker_symbol : i \in priced}
    IN  {rp \in [tks -> DOMAIN T] :
            \A t \in tks :
                rp[t] \in RowNumberOne(T, {i \in priced : T[i].ticker_symbol = t})}

(* ranked_prices of get_portfolio_summary and get_account_analysis_context: *)
(* every way the store can pick the rn = 1 row of each ticker of account a *)
ranked_prices(T, a) ==
    LET priced == {i \in DOMAIN T : T[i].account_id = a /\ T[i].event_type = "PRICE"}
        tks    == {T[i].ticker_symbol : i \in priced}
    IN  {rp \in [tks -> DOMAIN T] :
            \A t \in tks :
                rp[t] \in RowNumberOne(T, {i \in priced : T[i].ticker_symbol = t})}

(* The net_shares and net_cost aggregates over the rows grp of a group *)
net_shares(T, grp) == SUM([i \in grp |-> NetSharesTerm(T[i])], grp)

net_cost(T, grp) == SUM([i \in grp |-> NetCostTerm(T[i])], grp)

(* Sort a set of tickers ascending: ORDER BY ticker_symbol *)
OrderByTicker(tks) ==
    LET ranks == {TickerRank(t) : t \in tks}
        pos(k) == Cardinality({r \in ranks : r <= k})
    IN  [n \in 1..Cardinality(tks) |->
            TickerOrder[CHOOSE k \in ranks : pos(k) = n]]

----------------------------------------------------------------------------
(* TradingPlatformOperations *)

(* One grouped row of get_portfolio_summary for ticker t, given the rn = 1 *)
(* choice rp of the LEFT JOIN                                               *)
SummaryRow(T, a, t, rp) ==
    LET grp == {i \in DOMAIN T : T[i].account_id = a /\ T[i].ticker_symbol = t}
    IN  [account_id    |-> a,
         ticker_symbol |-> t,
         net_shares    |-> net_shares(T, grp),
         net_cost      |-> net_cost(T, grp),
         last_price    |-> IF t \in DOMAIN rp THEN Some(T[rp[t]].price_per_share) ELSE NULL,
         last_price_ts |-> IF t \in DOMAIN rp THEN Some(T[rp[t]].event_ts) ELSE NULL,
         last_event_ts |-> MAX([i \in grp |-> T[i].event_ts], grp)]

get_portfolio_summary(T, a, rp) ==
    LET tks == {T[i].ticker_symbol : i \in {j \in DOMAIN T : T[j].account_id = a}}
        ord == OrderByTicker(tks)
    IN  [n \in DOMAIN ord |-> SummaryRow(T, a, ord[n], rp)]

(* ranked_prices of get_all_portfolio_summaries: PARTITION BY account_id,  *)
(* ticker_symbol over the PRICE rows of every account                       *)
ranked_prices_all(T) ==
    LET priced == {i \in DOMAIN T : T[i].event_type = "PRICE"}
        keys   == {<<T[i].account_id, T[i].ticker_symbol>> : i \in priced}
    IN  {rp \in [keys -> DOMAIN T] :
            \A k \in keys :
                rp[k] \in RowNumberOne(T, {i \in priced :
                                             /\ T[i].account_id = k[1]
                                             /\ T[i].ticker_symbol = k[2]})}

(* One grouped row of get_all_portfolio_summaries: only BUY and SELL rows  *)
(* pass the WHERE clause                                                    *)
AllSummaryRow(T, k, rp) ==
    LET grp == {i \in DOMAIN T : /\ T[i].account_id = k[1]
                                 /\ T[i].ticker_symbol = k[2]
                                 /\ T[i].event_type \in {"BUY", "SELL"}}
    IN  [account_id    |-> k[1],
         ticker_symbol |-> k[2],
         net_shares    |-> net_shares(T, grp),
         net_cost      |-> net_cost(T, grp),
         last_price    |-> IF k \in DOMAIN rp THEN Some(T[rp[k]].price_per_share) ELSE NULL,
         last_price_ts |-> IF k \in DOMAIN rp THEN Some(T[rp[k]].event_ts) ELSE NULL,
         last_event_ts |-> MAX([i \in grp |-> T[i].event_ts], grp)]

(* Sort a set of (account, ticker) keys: ORDER BY account_id, ticker_symbol *)
OrderByAccountTicker(keys) ==
    LET before(x, y) == \/ AccountRank(x[1]) < AccountRank(y[1])
                        \/ /\ x[1] = y[1]
                           /\ TickerRank(x[2]) <= TickerRank(y[2])
        pos(k) == Cardinality({x \in keys : before(x, k)})
    IN  [n \in 1..Cardinality(keys) |-> CHOOSE k \in keys : pos(k) = n]

get_all_portfolio_summaries(T, rp) ==
    LET keys == {<<T[i].account_id, T[i].ticker_symbol>> :
                    i \in {j \in DOMAIN T : T[j].event_type \in {"BUY", "SELL"}}}
        ord  == OrderByAccountTicker(keys)
    IN  [n \in DOMAIN ord |-> AllSummaryRow(T, ord[n], rp)]

(* The quotient n / d as the store computes it, kept exact *)
Div(n, d) == [num |-> n, den |-> d]

(* str(datetime) of a timestamp the driver returned, and                   *)
(* datetime.fromisoformat of such a string                                 *)
IsoStr(ts) == [date |-> ts \div TicksPerDay, time |-> ts % TicksPerDay, tz |-> "+00:00"]

FromIsoFormat(s) == s.date * TicksPerDay + s.time

(* .replace("Z", "+00:00") on the text of a timestamp *)
ReplaceZ(s) == IF s.tz = "Z" THEN [s EXCEPT !.tz = "+00:00"] ELSE s

(* datetime.fromisoformat accepts the text: an offset, or none (a naive    *)
(* time, then taken as UTC); otherwise it raises ValueError                 *)
IsIsoFormat(s) == s.tz \in {"+00:00", ""}

(* (now - ts).days: whole days, rounded towards minus infinity *)
Days(delta) == delta \div TicksPerDay

(* holdings CTE of get_account_analysis_context: one row per ticker of a *)
holdings(T, a, rp) ==
    LET tks == {T[i].ticker_symbol : i \in {j \in DOMAIN T : T[j].account_id = a}}
    IN  [t \in tks |->
            LET grp == {i \in DOMAIN T : T[i].account_id = a /\ T[i].ticker_symbol = t}
            IN  [account_id        |-> a,
                 ticker_symbol     |-> t,
                 total_buy_shares  |-> SUM([i \in grp |-> BuySharesTerm(T[i])], grp),
                 total_sell_shares |-> SUM([i \in grp |-> SellSharesTerm(T[i])], grp),
                 net_shares        |-> net_shares(T, grp),
                 net_cost          |-> net_cost(T, grp),
                 last_price        |-> IF t \in DOMAIN rp
                                       THEN Some(T[rp[t]].price_per_share) ELSE NULL,
                 last_price_ts     |-> IF t \in DOMAIN rp
                                       THEN Some(T[rp[t]].event_ts) ELSE NULL,
                 last_event_ts     |-> MAX([i \in grp |-> T[i].event_ts], grp)]]

(* Mutant: every priced position counts, also an oversold one *)
MarketValueTerm_AllPriced(h) ==
    IF ~IsNull(h.last_price) THEN h.net_shares * Val(h.last_price) ELSE 0

(* SUM(CASE WHEN last_price IS NOT NULL AND net_shares > 0                  *)
(*          THEN net_shares * last_price ELSE 0 END)                        *)
MarketValueTerm(h) ==
    IF ~IsNull(h.last_price) /\ h.net_shares > 0
    THEN h.net_shares * Val(h.last_price) ELSE 0

(* portfolio_totals CTE *)
portfolio_totals(H) ==
    [total_market_value   |-> SUM([t \in DOMAIN H |-> MarketValueTerm(H[t])], DOMAIN H),
     total_positions      |-> Cardinality(DOMAIN H),
     positions_with_price |-> Cardinality({t \in DOMAIN H : ~IsNull(H[t].last_price)}),
     positions_no_price   |-> Cardinality({t \in DOMAIN H : IsNull(H[t].last_price)})]

(* ORDER BY CASE WHEN last_price IS NOT NULL THEN net_shares * last_price   *)
(*          ELSE 0 END DESC: every order of the rows the store can return  *)
OrderKey(h) == IF ~IsNull(h.last_price) THEN h.net_shares * Val(h.last_price) ELSE 0

OrderByMarketValueDesc(H) ==
    LET n == Cardinality(DOMAIN H)
    IN  {ord \in [1..n -> DOMAIN H] :
            /\ \A i, j \in 1..n : i # j => ord[i] # ord[j]
            /\ \A i, j \in 1..n : i < j => OrderKey(H[ord[i]]) >= OrderKey(H[ord[j]])}

(* Mutant: the divisor is net_shares *)
avg_cost_per_share_ByNetShares(h) ==
    IF h.net_shares > 0 THEN Some(Div(h.net_cost, h.net_shares)) ELSE NULL

(* CASE WHEN h.total_buy_shares > 0 THEN h.net_cost / h.total_buy_shares   *)
(*      ELSE NULL END                                                       *)
avg_cost_per_share(h) ==
    IF h.total_buy_shares > 0 THEN Some(Div(h.net_cost, h.total_buy_shares)) ELSE NULL

(* Mutant: only long positions get an unrealized_pnl *)
unrealized_pnl_LongOnly(h) ==
    IF ~IsNull(h.last_price) /\ h.net_shares > 0
    THEN Some(h.net_shares * Val(h.last_price) - h.net_cost) ELSE NULL

(* CASE WHEN h.last_price IS NOT NULL                                       *)
(*      THEN h.net_shares * h.last_price - h.net_cost ELSE NULL END         *)
unrealized_pnl(h) ==
    IF ~IsNull(h.last_price)
    THEN Some(h.net_shares * Val(h.last_price) - h.net_cost) ELSE NULL

(* Mutant: only long positions get a weight *)
portfolio_weight_LongOnly(h, pt) ==
    IF ~IsNull(h.last_price) /\ h.net_shares > 0 /\ pt.total_market_value > 0
    THEN Some(Div(h.net_shares * Val(h.last_price), pt.total_market_value))
    ELSE NULL

(* CASE WHEN h.last_price IS NOT NULL AND pt.total_market_value > 0         *)
(*      THEN (h.net_shares * h.last_price) / pt.total_market_value          *)
(*      ELSE NULL END                                                       *)
portfolio_weight(h, pt) ==
    IF ~IsNull(h.last_price) /\ pt.total_market_value > 0
    THEN Some(Div(h.net_shares * Val(h.last_price), pt.total_market_value))
    ELSE NULL

(* One row of the final SELECT of get_account_analysis_context, converted  *)
(* to the dict appended to the holdings list                                *)
HoldingDict(h, pt) ==
    [account_id         |-> h.account_id,
     ticker_symbol      |-> h.ticker_symbol,
     net_shares         |-> h.net_shares,
     net_cost           |-> h.net_cost,
     last_price         |-> h.last_price,
     last_price_ts      |-> IF ~IsNull(h.last_price_ts)
                            THEN Some(IsoStr(Val(h.last_price_ts))) ELSE NULL,
     last_event_ts      |-> Some(IsoStr(h.last_event_ts)),
     avg_cost_per_share |-> avg_cost_per_share(h),
     unrealized_pnl     |-> unrealized_pnl(h),
     portfolio_weight   |-> portfolio_weight(h, pt)]

(* Mutant: an account without a long priced position is reported as empty *)
get_account_analysis_context_EmptyWhenNoValue(T, a, rp, ord) ==
    LET H  == holdings(T, a, rp)
        pt == portfolio_totals(H)
    IN  IF DOMAIN H = {} \/ pt.total_market_value = 0
        THEN [account_id |-> a, holdings |-> <<>>, summary |-> NULL]
        ELSE [account_id |-> a,
              summary    |-> Some([account_id           |-> a,
                                   total_market_value   |-> pt.total_market_value,
                                   total_positions      |-> pt.total_positions,
                                   positions_with_price |-> pt.positions_with_price,
                                   positions_no_price   |-> pt.positions_no_price]),
              holdings   |-> [n \in DOMAIN ord |-> HoldingDict(H[ord[n]], pt)]]

(* `if not rows` returns the empty context; otherwise the summary of the   *)
(* first row and one dict per row                                           *)
get_account_analysis_context(T, a, rp, ord) ==
    LET H  == holdings(T, a, rp)
        pt == portfolio_totals(H)
    IN  IF DOMAIN H = {}
        THEN [account_id |-> a, holdings |-> <<>>, summary |-> NULL]
        ELSE [account_id |-> a,
              summary    |-> Some([account_id           |-> a,
                                   total_market_value   |-> pt.total_market_value,
                                   total_positions      |-> pt.total_positions,
                                   positions_with_price |-> pt.positions_with_price,
                                   positions_no_price   |-> pt.positions_no_price]),
              holdings   |-> [n \in DOMAIN ord |-> HoldingDict(H[ord[n]], pt)]]

(* get_latest_price: ORDER BY event_ts DESC LIMIT 1 over the PRICE rows of *)
(* the ticker in every account; the rows the store can return first        *)
LatestPriceRows(T, t) ==
    RowNumberOne(T, {i \in DOMAIN T : T[i].ticker_symbol = t /\ T[i].event_type = "PRICE"})

get_latest_price(T, i) ==
    [ticker_symbol |-> T[i].ticker_symbol, price_per_share |-> T[i].price_per_share,
     currency |-> T[i].currency, event_ts |-> T[i].event_ts]

(* Rows added by requests since start-up (seed rows come from the loader) *)
Inserted(T) == Cardinality({i \in DOMAIN T : T[i].source = "api"})

insert_event(T, req) == Append(T, Row(req, Len(T) + 1))

----------------------------------------------------------------------------
(* Anomaly post-processing *)

Anomaly(flag, ticker, details) == [flag |-> flag, ticker |-> ticker, details |-> details]

(* Python's `x or 0` on a number *)
OrZero(x) == IF x = 0 THEN 0 ELSE x

(* Mutant: a flat position is flagged too *)
ApiHoldingAnomalies_OversellAtZero(h, now) ==
    (IF OrZero(h.net_shares) <= 0
     THEN <<Anomaly("OVERSELL", h.ticker_symbol, Some(h.net_shares))>> ELSE <<>>)
    \o
    (IF IsNull(h.last_price)
     THEN <<Anomaly("MISSING_PRICE", h.ticker_symbol, NULL)>>
     ELSE IF ~IsNull(h.last_price_ts)
          THEN LET ts  == FromIsoFormat(Val(h.last_price_ts))
                   age == Days(now - ts)
               IN  IF age >= STALE_DAYS
                   THEN <<Anomaly("STALE_PRICE", h.ticker_symbol, Some(age))>>
                   ELSE <<>>
          ELSE <<>>)

(* Body of the loop `for h in result["holdings"]` of the endpoint          *)
(* GET /portfolio/{account_id}/analysis-context                             *)
ApiHoldingAnomalies(h, now) ==
    (IF OrZero(h.net_shares) < 0
     THEN <<Anomaly("OVERSELL", h.ticker_symbol, Some(h.net_shares))>> ELSE <<>>)
    \o
    (IF IsNull(h.last_price)
     THEN <<Anomaly("MISSING_PRICE", h.ticker_symbol, NULL)>>
     ELSE IF ~IsNull(h.last_price_ts)
          THEN LET ts_str == ReplaceZ(Val(h.last_price_ts))
               IN  IF ~IsIsoFormat(ts_str) THEN <<>>
                   ELSE LET ts  == FromIsoFormat(ts_str)
                            age == Days(now - ts)
                        IN  IF age >= STALE_DAYS
                            THEN <<Anomaly("STALE_PRICE", h.ticker_symbol, Some(age))>>
                            ELSE <<>>
          ELSE <<>>)

(* Mutant: the age is checked on its own, on last_price_ts or, without    *)
(* one, on last_event_ts                                                    *)
ToolHoldingAnomalies_StaleFallback(h, now) ==
    (IF h.net_shares < 0
     THEN <<Anomaly("OVERSELL", h.ticker_symbol, Some(h.net_shares))>> ELSE <<>>)
    \o
    (IF IsNull(h.last_price)
     THEN <<Anomaly("MISSING_PRICE", h.ticker_symbol, NULL)>> ELSE <<>>)
    \o
    (LET ts       == FromIsoFormat(IF ~IsNull(h.last_price_ts)
                                   THEN Val(h.last_price_ts) ELSE Val(h.last_event_ts))
         age_days == Days(now - ts)
     IN  IF age_days >= STALE_DAYS
         THEN <<Anomaly("STALE_PRICE", h.ticker_symbol, Some(age_days))>>
         ELSE <<>>)

(* Mutant: the tool flags a price only when it is older than STALE_DAYS *)
ToolHoldingAnomalies_StrictlyOlder(h, now) ==
    (IF h.net_shares < 0
     THEN <<Anomaly("OVERSELL", h.ticker_symbol, Some(h.net_shares))>> ELSE <<>>)
    \o
    (IF IsNull(h.last_price)
     THEN <<Anomaly("MISSING_PRICE", h.ticker_symbol, NULL)>>
     ELSE IF ~IsNull(h.last_price_ts)
          THEN LET ts_str == ReplaceZ(Val(h.last_price_ts))
               IN  IF ~IsIsoFormat(ts_str) THEN <<>>
                   ELSE LET ts       == FromIsoFormat(ts_str)
                            age_days == Days(now - ts)
                        IN  IF age_days > STALE_DAYS
                            THEN <<Anomaly("STALE_PRICE", h.ticker_symbol, Some(age_days))>>
                            ELSE <<>>
          ELSE <<>>)

(* Body of the loop `for h in result["holdings"]` of the tool              *)
(* get_account_analysis_context                                             *)
ToolHoldingAnomalies(h, now) ==
    (IF h.net_shares < 0
     THEN <<Anomaly("OVERSELL", h.ticker_symbol, Some(h.net_shares))>> ELSE <<>>)
    \o
    (IF IsNull(h.last_price)
     THEN <<Anomaly("MISSING_PRICE", h.ticker_symbol, NULL)>>
     ELSE IF ~IsNull(h.last_price_ts)
          THEN LET ts_str == ReplaceZ(Val(h.last_price_ts))
               IN  IF ~IsIsoFormat(ts_str) THEN <<>>
                   ELSE LET ts       == FromIsoFormat(ts_str)
                            age_days == Days(now - ts)
                        IN  IF age_days >= STALE_DAYS
                            THEN <<Anomaly("STALE_PRICE", h.ticker_symbol, Some(age_days))>>
                            ELSE <<>>
          ELSE <<>>)

RECURSIVE ApiAnomalies(_, _)
ApiAnomalies(hs, now) ==
    IF hs = <<>> THEN <<>>
    ELSE ApiHoldingAnomalies(Head(hs), now) \o ApiAnomalies(Tail(hs), now)

RECURSIVE ToolAnomalies(_, _)
ToolAnomalies(hs, now) ==
    IF hs = <<>> THEN <<>>
    ELSE ToolHoldingAnomalies(Head(hs), now) \o ToolAnomalies(Tail(hs), now)

(* Flags column of one row of the get_all_portfolio_summaries tool *)
ToolRowFlags(r, now) ==
    LET net == OrZero(r.net_shares)
    IN  (IF net < 0 THEN <<[flag |-> "OVERSELL", days |-> NULL]>> ELSE <<>>)
        \o
        (IF IsNull(r.last_price)
         THEN <<[flag |-> "NO_PRICE", days |-> NULL]>>
         ELSE IF ~IsNull(r.last_price_ts)
              THEN LET days_stale == Days(now - Val(r.last_price_ts))
                   IN  IF days_stale > 30
                       THEN <<[flag |-> "STALE_PRICE", days |-> Some(days_stale)]>>
                       ELSE <<>>
              ELSE <<>>)

----------------------------------------------------------------------------
(* SQL text.  A statement is a sequence of characters; the conversions of  *)
(* execute_read_query work on the characters                               *)

LowerCase ==
    <<"a", "b", "c", "d", "e", "f", "g", "h", "i", "j", "k", "l", "m",
          "n", "o", "p", "q", "r", "s", "t", "u", "v", "w", "x",
          "y", "z">>

UpperCase ==
    <<"A", "B", "C", "D", "E", "F", "G", "H", "I", "J", "K", "L", "M",
          "N", "O", "P", "Q", "R", "S", "T", "U", "V", "W", "X",
          "Y", "Z">>

(* The characters str.strip() removes *)
Whitespace == {" ", "\t", "\n"}

(* str.lower() and str.upper() on one character *)
ToLower ==
    [c \in {UpperCase[k] : k \in DOMAIN UpperCase} |->
        LowerCase[CHOOSE k \in DOMAIN UpperCase : UpperCase[k] = c]]

ToUpper ==
    [c \in {LowerCase[k] : k \in DOMAIN LowerCase} |->
        UpperCase[CHOOSE k \in DOMAIN LowerCase : LowerCase[k] = c]]

LowerChar(c) == IF c \in DOMAIN ToLower THEN ToLower[c] ELSE c

UpperChar(c) == IF c \in DOMAIN ToUpper THEN ToUpper[c] ELSE c

lower(s) == [i \in DOMAIN s |-> LowerChar(s[i])]

RECURSIVE lstrip(_)
lstrip(s) == IF s # <<>> /\ Head(s) \in Whitespace THEN lstrip(Tail(s)) ELSE s

RECURSIVE rstrip(_)
rstrip(s) ==
    IF s # <<>> /\ s[Len(s)] \in Whitespace THEN rstrip(SubSeq(s, 1, Len(s) - 1)) ELSE s

strip(s) == rstrip(lstrip(s))

(* s.startswith(p) and `kw in s` *)
startswith(s, p) == Len(s) >= Len(p) /\ \A j \in DOMAIN p : s[j] = p[j]

contains(s, kw) ==
    \E i \in 1..(Len(s) - Len(kw) + 1) : \A j \in DOMAIN kw : s[i + j - 1] = kw[j]

select == <<"s", "e", "l", "e", "c", "t">>

FORBIDDEN_SQL ==
    { <<"i", "n", "s", "e", "r", "t">>,
      <<"u", "p", "d", "a", "t", "e">>,
      <<"d", "e", "l", "e", "t", "e">>,
      <<"d", "r", "o", "p">>,
      <<"t", "r", "u", "n", "c", "a", "t", "e">>,
      <<"a", "l", "t", "e", "r">>,
      <<"c", "r", "e", "a", "t", "e">>,
      <<"r", "e", "p", "l", "a", "c", "e">>,
      <<"u", "p", "s", "e", "r", "t">>,
      <<"m", "e", "r", "g", "e">>,
      <<"g", "r", "a", "n", "t">>,
      <<"r", "e", "v", "o", "k", "e">>,
      <<"c", "o", "p", "y">>,
      <<"v", "a", "c", "u", "u", "m">>,
      <<"p", "g", "_">>,
      <<"i", "n", "f", "o", "r", "m", "a", "t", "i", "o", "n", "_", "s",
          "c", "h", "e", "m", "a">> }

(* Mutant: the text is compared as the caller wrote it *)
normalized_AsWritten(sql) == strip(sql)

(* normalized = sql.lower().strip() *)
normalized(sql) == strip(lower(sql))

(* Mutant: every statement passes *)
GateErrors_None(sql) == {}

(* The guard of execute_read_query: the ValueErrors it can raise for sql,  *)
(* none when sql passes.  The keywords are tried in the iteration order of *)
(* a frozenset, so any keyword the text contains can be the one reported   *)
GateErrors(sql) ==
    LET text == normalized(sql)
    IN  IF ~startswith(text, select)
        THEN {[type |-> "ValueError", msg |-> "Only SELECT statements are permitted",
               kw |-> <<>>]}
        ELSE {[type |-> "ValueError", msg |-> "Forbidden keyword", kw |-> kw] :
                 kw \in {k \in FORBIDDEN_SQL : contains(text, k)}}

(* execute_query: the text handed to conn.fetch.  Without params no %s     *)
(* placeholder is rewritten                                                 *)
QueryText(sql) == sql

----------------------------------------------------------------------------
(* The statements callers send to POST /query and to the run_query tool    *)

(* Ways of writing a word: as is, upper case, mixed case *)
Cased(w) ==
    { w,
      [i \in DOMAIN w |-> UpperChar(w[i])],
      [i \in DOMAIN w |-> IF i % 2 = 0 THEN UpperChar(w[i]) ELSE w[i]] }

FromLedger == <<" ", "*", " ", "f", "r", "o", "m", " ", "p", "o", "r", "t", "f",
          "o", "l", "i", "o", "_", "e", "v", "e", "n", "t", "_",
          "l", "e", "d", "g", "e", "r">>

(* Words that look like a forbidden keyword without containing one *)
NearMisses ==
    { <<"d", "r", "o", " ", "p">>,
      <<"i", "n", "s", "e", "r", " ", "t">>,
      <<"p", "g", "-", "s", "t", "a", "t">> }

(* Read statements that start with select: plain, and with a word inside a *)
(* quoted literal, as a column alias, or as a second statement             *)
SelectBodies(words) ==
    {FromLedger}
    \cup {FromLedger \o <<" ", "w", "h", "e", "r", "e", " ", "s", "o", "u", "r", "c", "e",
          " ", "=", " ", "'">> \o w \o <<"'">> : w \in words}
    \cup {<<" ", "i", "d", " ", "a", "s", " ">> \o w \o <<"x", " ", "f", "r", "o", "m", " ", "p", "o", "r", "t", "f", "o",
          "l", "i", "o", "_", "e", "v", "e", "n", "t", "_", "l",
          "e", "d", "g", "e", "r">> : w \in words}
    \cup {FromLedger \o <<";", " ">> \o w \o <<" ", "p", "o", "r", "t", "f", "o", "l", "i", "o", "_", "e", "v",
          "e", "n", "t", "_", "l", "e", "d", "g", "e", "r">> : w \in words}

(* A column of the table whose name holds a keyword *)
SelectCreatedAt == <<"s", "e", "l", "e", "c", "t", " ", "c", "r", "e", "a", "t", "e",
          "d", "_", "a", "t", " ", "f", "r", "o", "m", " ", "p",
          "o", "r", "t", "f", "o", "l", "i", "o", "_", "e", "v",
          "e", "n", "t", "_", "l", "e", "d", "g", "e", "r">>

(* Statements that change or remove rows of the ledger *)
DeleteLedger == <<"d", "e", "l", "e", "t", "e", " ", "f", "r", "o", "m", " ", "p",
          "o", "r", "t", "f", "o", "l", "i", "o", "_", "e", "v",
          "e", "n", "t", "_", "l", "e", "d", "g", "e", "r">>

UpdateLedger == <<"u", "p", "d", "a", "t", "e", " ", "p", "o", "r", "t", "f", "o",
          "l", "i", "o", "_", "e", "v", "e", "n", "t", "_", "l",
          "e", "d", "g", "e", "r", " ", "s", "e", "t", " ", "s",
          "h", "a", "r", "e", "s", " ", "=", " ", "0">>

TruncateLedger == <<"t", "r", "u", "n", "c", "a", "t", "e", " ", "p", "o", "r", "t",
          "f", "o", "l", "i", "o", "_", "e", "v", "e", "n", "t",
          "_", "l", "e", "d", "g", "e", "r">>

DropLedger == <<"d", "r", "o", "p", " ", "t", "a", "b", "l", "e", " ", "p", "o",
          "r", "t", "f", "o", "l", "i", "o", "_", "e", "v", "e",
          "n", "t", "_", "l", "e", "d", "g", "e", "r">>

InsertLedger == <<"i", "n", "s", "e", "r", "t", " ", "i", "n", "t", "o", " ", "p",
          "o", "r", "t", "f", "o", "l", "i", "o", "_", "e", "v",
          "e", "n", "t", "_", "l", "e", "d", "g", "e", "r", " ",
          "s", "e", "l", "e", "c", "t", " ", "*", " ", "f", "r",
          "o", "m", " ", "p", "o", "r", "t", "f", "o", "l", "i",
          "o", "_", "e", "v", "e", "n", "t", "_", "l", "e", "d",
          "g", "e", "r">>

(* Reads that do not start with select *)
WithSelect == <<"w", "i", "t", "h", " ", "x", " ", "a", "s", " ", "(", "s", "e",
          "l", "e", "c", "t", " ", "1", ")", " ", "s", "e", "l",
          "e", "c", "t", " ", "*", " ", "f", "r", "o", "m", " ", "x">>

TableLedger == <<"t", "a", "b", "l", "e", " ", "p", "o", "r", "t", "f", "o", "l",
          "i", "o", "_", "e", "v", "e", "n", "t", "_", "l", "e",
          "d", "g", "e", "r">>

Writes == {DeleteLedger, UpdateLedger, TruncateLedger, DropLedger, InsertLedger}

(* A few statements of each kind *)
SampleQueries ==
    { select \o FromLedger,
      select \o FromLedger \o <<" ", "w", "h", "e", "r", "e", " ", "s", "o", "u", "r", "c", "e",
          " ", "=", " ", "'", "d", "e", "l", "e", "t", "e", "'">>,
      <<"S", "E", "L", "E", "C", "T", " ", "1", ";", " ", "D", "E", "L",
          "E", "T", "E", " ", "F", "R", "O", "M", " ", "p", "o",
          "r", "t", "f", "o", "l", "i", "o", "_", "e", "v", "e",
          "n", "t", "_", "l", "e", "d", "g", "e", "r">>,
      DeleteLedger, UpdateLedger, TruncateLedger }

Statements ==
    {h \o b : h \in Cased(select),
              b \in SelectBodies(UNION {Cased(k) : k \in FORBIDDEN_SQL} \cup NearMisses)}
    \cup UNION {Cased(st) : st \in Writes \cup {WithSelect, TableLedger, SelectCreatedAt}}
    \cup SampleQueries
    \cup { <<"s", "e", "l", "e", "c", "t", "i", "o", "n">>, <<>> }

(* White space around the statement *)
Pads == {<<>>, <<" ">>, <<"\t", "\n">>}

Queries == {p \o st \o p : p \in Pads, st \in Statements}

(* What the store does to table T when it runs the statement: only a       *)
(* statement that starts with a write command changes T                    *)
StoreExecute(T, sql) ==
    LET text == lstrip(lower(sql))
    IN  IF startswith(text, <<"d", "e", "l", "e", "t", "e">>) \/ startswith(text, <<"t", "r", "u", "n", "c", "a", "t", "e">>)
           \/ startswith(text, <<"d", "r", "o", "p">>)
        THEN <<>>
        ELSE IF startswith(text, <<"u", "p", "d", "a", "t", "e">>)
        THEN [i \in DOMAIN T |-> [T[i] EXCEPT !.shares = 0]]
        ELSE IF startswith(text, <<"i", "n", "s", "e", "r", "t">>)
        THEN T \o T
        ELSE T

----------------------------------------------------------------------------
(* Requests.  A handler sends one SQL statement and builds its response    *)
(* from the rows without reading the ledger again, so a request is one     *)
(* step; response holds what the caller gets until the caller has taken it *)

NoResponse == [op |-> "none"]

(* The two instances: db_ops of the REST service, _ops of the agent tools *)
Instances == {"db_ops", "_ops"}

(* Both instances connected at start-up, no request in progress *)
InfraReady ==
    /\ books = <<>>
    /\ env = TRUE
    /\ pool = [i \in Instances |-> IF i = "db_ops" THEN Some(1) ELSE Some(2)]
    /\ pools = <<[closed |-> FALSE, in_use |-> 0], [closed |-> FALSE, in_use |-> 0]>>
    /\ calls = <<>>

Init ==
    /\ ledger = SeedLedger
    /\ response = NoResponse
    /\ InfraReady

(* POST /events and the insert_trade_event tool *)
InsertEvent ==
    /\ response.op = "none"
    /\ \E req \in InsertEventRequest :
        /\ Inserted(ledger) < MaxInserts
        /\ ledger' = insert_event(ledger, req)
        /\ response' = [op |-> "insert_event", id |-> Len(ledger) + 1]
    /\ UNCHANGED <<books, infra>>

(* GET /portfolio/{account_id} and the get_portfolio_summary tool *)
PortfolioSummary ==
    /\ response.op = "none"
    /\ \E a \in Accounts : \E rp \in ranked_prices(ledger, a) :
        response' = [op |-> "get_portfolio_summary", account_id |-> a,
                     rows |-> get_portfolio_summary(ledger, a, rp)]
    /\ UNCHANGED <<books, ledger, infra>>

(* GET /portfolio/summary/all *)
AllPortfolioSummaries ==
    /\ response.op = "none"
    /\ \E rp \in ranked_prices_all(ledger) :
        response' = [op |-> "get_all_portfolio_summaries",
                     rows |-> get_all_portfolio_summaries(ledger, rp)]
    /\ UNCHANGED <<books, ledger, infra>>

(* The get_all_portfolio_summaries tool: the rows with their Flags column *)
ToolAllPortfolioSummaries ==
    /\ response.op = "none"
    /\ \E now \in NowSet : \E rp \in ranked_prices_all(ledger) :
        LET rows == get_all_portfolio_summaries(ledger, rp)
        IN  response' = [op |-> "tool_get_all_portfolio_summaries", now |-> now,
                         rows |-> rows,
                         flags |-> [n \in DOMAIN rows |-> ToolRowFlags(rows[n], now)]]
    /\ UNCHANGED <<books, ledger, infra>>

(* GET /portfolio/{account_id}/analysis-context *)
AccountAnalysisContext ==
    /\ response.op = "none"
    /\ \E a \in Accounts, now \in NowSet :
       \E rp \in ranked_prices(ledger, a) :
       \E ord \in OrderByMarketValueDesc(holdings(ledger, a, rp)) :
        LET result == get_account_analysis_context(ledger, a, rp, ord)
        IN  response' =
                IF result.holdings = <<>>
                THEN [op |-> "account_analysis_context", account_id |-> a, status |-> 404]
                ELSE [op |-> "account_analysis_context", account_id |-> a, status |-> 200,
                      summary |-> result.summary, holdings |-> result.holdings,
                      anomalies |-> ApiAnomalies(result.holdings, now),
                      as_of_date |-> now]
    /\ UNCHANGED <<books, ledger, infra>>

(* The get_account_analysis_context tool *)
ToolAccountAnalysisContext ==
    /\ response.op = "none"
    /\ \E a \in Accounts, now \in NowSet :
       \E rp \in ranked_prices(ledger, a) :
       \E ord \in OrderByMarketValueDesc(holdings(ledger, a, rp)) :
        LET result == get_account_analysis_context(ledger, a, rp, ord)
        IN  response' =
                IF result.holdings = <<>>
                THEN [op |-> "tool_get_account_analysis_context", account_id |-> a,
                      error |-> "No holdings found"]
                ELSE [op |-> "tool_get_account_analysis_context", account_id |-> a,
                      summary |-> result.summary, holdings |-> result.holdings,
                      anomalies |-> ToolAnomalies(result.holdings, now),
                      as_of_date |-> now]
    /\ UNCHANGED <<books, ledger, infra>>

(* get_latest_price of a ticker: the row, or None *)
LatestPrice ==
    /\ response.op = "none"
    /\ \E t \in Tickers :
        \/ /\ LatestPriceRows(ledger, t) = {}
           /\ response' = [op |-> "get_latest_price", ticker_symbol |-> t, row |-> NULL]
        \/ \E i \in LatestPriceRows(ledger, t) :
              response' = [op |-> "get_latest_price", ticker_symbol |-> t,
                           row |-> Some(get_latest_price(ledger, i))]
    /\ UNCHANGED <<books, ledger, infra>>

(* The response has reached the caller *)
Return ==
    /\ response.op # "none"
    /\ response' = NoResponse
    /\ UNCHANGED <<books, ledger, infra>>

Next ==
    \/ InsertEvent
    \/ PortfolioSummary
    \/ AllPortfolioSummaries
    \/ ToolAllPortfolioSummaries
    \/ AccountAnalysisContext
    \/ ToolAccountAnalysisContext
    \/ LatestPrice
    \/ Return

Spec == Init /\ [][Next]_vars


----------------------------------------------------------------------------
(* Connections, the retry decorator and the request handlers that use      *)
(* them, one step per await                                                 *)

(* Bounds: concurrent requests, connections a pool hands out at once       *)
(* (max_size, scaled down with the number of requests), pools after which  *)
(* no request that could create one is started                              *)
MaxCallers == 2

MaxSize == 1

MaxPools == 2

(* retry_on_db_error(max_retries=3, delay=0.5), the delay in milliseconds *)
max_retries == 3

delay == 500

(* The asyncpg errors the decorator retries, other errors of the store,    *)
(* and the Python errors of the handlers                                    *)
Transient == {"ConnectionDoesNotExistError", "InterfaceError", "TooManyConnectionsError"}

NonTransient == {"UniqueViolationError", "PostgresSyntaxError"}

(* An error raised on attempt number at of the call *)
Error(type, at) == [type |-> type, at |-> at]

IdleCall ==
    [pc |-> "idle", kind |-> "none", inst |-> "none", sql |-> <<>>, attempt |-> 0,
     waits |-> <<>>, sent |-> <<>>, acquired |-> 0, conn |-> NULL, error |-> NULL,
     result |-> NULL, response |-> NULL, outer |-> 0]

(* Where a handler continues once initialize has returned *)
AfterInit(kind) ==
    CASE kind = "startup" -> "returned"
      [] kind = "run_query" -> "gate"
      [] OTHER -> "acquire"

(* initialize, up to its first await: nothing to do with a pool present,   *)
(* ValueError without the POSTGRES_* settings, else create_pool is awaited *)
initialize(call) ==
    IF ~IsNull(pool[call.inst]) THEN [call EXCEPT !.pc = AfterInit(call.kind)]
    ELSE IF ~env THEN [call EXCEPT !.pc = "raised", !.error = Some(Error("ValueError", 0))]
    ELSE [call EXCEPT !.pc = "create_pool"]

(* _require_db of the REST service: 503 without a pool *)
require_db(call, next) ==
    IF IsNull(pool["db_ops"])
    THEN [call EXCEPT !.pc = "done", !.response = Some([status |-> 503])]
    ELSE [call EXCEPT !.pc = next]

(* _get_ops of the tools: initialize when _ops.pool is None *)
get_ops(call) ==
    IF IsNull(pool["_ops"]) THEN initialize(call)
    ELSE [call EXCEPT !.pc = AfterInit(call.kind)]

(* No request that may create a pool is started once MaxPools exist *)
MayStart(inst) == ~IsNull(pool[inst]) \/ Len(pools) < MaxPools

(* startup of the REST service: await db_ops.initialize(); the event is    *)
(* handled once, so no two startups are in progress together               *)
Startup(c) ==
    /\ calls[c].pc = "idle"
    /\ \A d \in DOMAIN calls : calls[d].kind # "startup"
    /\ IsNull(pool["db_ops"])
    /\ MayStart("db_ops")
    /\ calls' = [calls EXCEPT ![c] =
                    initialize([IdleCall EXCEPT !.kind = "startup", !.inst = "db_ops"])]
    /\ UNCHANGED <<books, ledger, response, env, pool, pools>>

(* POST /query *)
DynamicQuery(c, Q) ==
    /\ calls[c].pc = "idle"
    /\ \E sql \in Q :
        calls' = [calls EXCEPT ![c] =
                     require_db([IdleCall EXCEPT !.kind = "dynamic_query",
                                                 !.inst = "db_ops", !.sql = sql], "gate")]
    /\ UNCHANGED <<books, ledger, response, env, pool, pools>>

(* The run_query tool *)
RunQuery(c, Q) ==
    /\ calls[c].pc = "idle"
    /\ MayStart("_ops")
    /\ \E sql \in Q :
        calls' = [calls EXCEPT ![c] =
                     get_ops([IdleCall EXCEPT !.kind = "run_query",
                                              !.inst = "_ops", !.sql = sql])]
    /\ UNCHANGED <<books, ledger, response, env, pool, pools>>

(* An endpoint of the REST service that calls one decorated operation *)
Operation(c) ==
    /\ calls[c].pc = "idle"
    /\ calls' = [calls EXCEPT ![c] =
                    require_db([IdleCall EXCEPT !.kind = "operation",
                                                !.inst = "db_ops"], "acquire")]
    /\ UNCHANGED <<books, ledger, response, env, pool, pools>>

(* A tool that calls one decorated operation *)
ToolOperation(c) ==
    /\ calls[c].pc = "idle"
    /\ MayStart("_ops")
    /\ calls' = [calls EXCEPT ![c] =
                    get_ops([IdleCall EXCEPT !.kind = "tool_operation", !.inst = "_ops"])]
    /\ UNCHANGED <<books, ledger, response, env, pool, pools>>

(* initialize resumes: create_pool has returned a new pool, which is       *)
(* assigned to self._pool; or create_pool has failed                       *)
CreatePool(c) ==
    /\ calls[c].pc = "create_pool"
    /\ \/ /\ pools' = Append(pools, [closed |-> FALSE, in_use |-> 0])
          /\ pool' = [pool EXCEPT ![calls[c].inst] = Some(Len(pools) + 1)]
          /\ calls' = [calls EXCEPT ![c].pc = "validate"]
       \/ /\ calls' = [calls EXCEPT ![c].pc = "raised",
                                    ![c].error = Some(Error("OSError", 0))]
          /\ UNCHANGED <<pool, pools>>
    /\ UNCHANGED <<books, ledger, response, env>>

(* initialize validates connectivity on self._pool as it is now: SELECT 1  *)
(* succeeds, or the pool is closed, self._pool reset and RuntimeError      *)
(* raised                                                                   *)
Validate(c) ==
    /\ calls[c].pc = "validate"
    /\ LET inst == calls[c].inst
       IN  IF IsNull(pool[inst])
           THEN /\ calls' = [calls EXCEPT ![c].pc = "raised",
                                          ![c].error = Some(Error("AttributeError", 0))]
                /\ UNCHANGED <<pool, pools>>
           ELSE /\ pools[Val(pool[inst])].in_use < MaxSize
                /\ \/ /\ calls' = [calls EXCEPT ![c].pc = AfterInit(calls[c].kind)]
                      /\ UNCHANGED <<pool, pools>>
                   \/ /\ pools' = [pools EXCEPT ![Val(pool[inst])].closed = TRUE]
                      /\ pool' = [pool EXCEPT ![inst] = NULL]
                      /\ calls' = [calls EXCEPT ![c].pc = "raised",
                                                ![c].error = Some(Error("RuntimeError", 0))]
    /\ UNCHANGED <<books, ledger, response, env>>

(* execute_read_query: the guard raises, or execute_query is called *)
Gate(c) ==
    /\ calls[c].pc = "gate"
    /\ LET errors == GateErrors(calls[c].sql)
       IN  IF errors = {}
           THEN calls' = [calls EXCEPT ![c].pc = "acquire"]
           ELSE \E e \in errors :
                   calls' = [calls EXCEPT ![c].pc = "raised", ![c].error = Some(e)]
    /\ UNCHANGED <<books, ledger, response, env, pool, pools>>

(* Mutant: one attempt more than max_retries *)
retry_on_db_error_OneMore(call, e) ==
    IF e.type \in Transient /\ call.attempt <= max_retries
    THEN [call EXCEPT !.pc = "sleep", !.error = Some(e),
                      !.waits = Append(@, delay * 2 ^ (call.attempt - 1))]
    ELSE [call EXCEPT !.pc = "raised", !.error = Some(e)]

(* Mutant: every error of the store is retried *)
retry_on_db_error_AnyError(call, e) ==
    IF call.attempt < max_retries
    THEN [call EXCEPT !.pc = "sleep", !.error = Some(e),
                      !.waits = Append(@, delay * 2 ^ (call.attempt - 1))]
    ELSE [call EXCEPT !.pc = "raised", !.error = Some(e)]

(* The except clauses of the wrapper, with call.attempt counting from 1:   *)
(* a transient error before the last attempt sleeps delay * 2 ** attempt   *)
(* (attempt counted from 0 there); any other error is raised again         *)
retry_on_db_error(call, e) ==
    IF e.type \in Transient /\ call.attempt < max_retries
    THEN [call EXCEPT !.pc = "sleep", !.error = Some(e),
                      !.waits = Append(@, delay * 2 ^ (call.attempt - 1))]
    ELSE [call EXCEPT !.pc = "raised", !.error = Some(e)]

(* One pass of the wrapper's loop enters the operation: `async with        *)
(* self._pool.acquire()` hands out a connection when one is free, waits    *)
(* otherwise, or raises                                                     *)
Acquire(c) ==
    /\ calls[c].pc = "acquire"
    /\ LET call == [calls[c] EXCEPT !.attempt = @ + 1, !.error = NULL]
           p    == pool[call.inst]
       IN  IF IsNull(p)
           THEN /\ calls' = [calls EXCEPT ![c] =
                                retry_on_db_error(call, Error("AttributeError", call.attempt))]
                /\ UNCHANGED pools
           ELSE /\ pools[Val(p)].in_use < MaxSize
                /\ \/ /\ pools' = [pools EXCEPT ![Val(p)].in_use = @ + 1]
                      /\ calls' = [calls EXCEPT ![c] =
                                      [call EXCEPT !.pc = "fetch", !.conn = p,
                                                   !.acquired = @ + 1]]
                   \/ /\ \E t \in Transient :
                            calls' = [calls EXCEPT ![c] =
                                         retry_on_db_error(call, Error(t, call.attempt))]
                      /\ UNCHANGED pools
    /\ UNCHANGED <<books, ledger, response, env, pool>>

(* Mutant: the connection stays checked out when the statement fails *)
ReleaseConnection_OnSuccessOnly(c) ==
    IF IsNull(calls[c].error)
    THEN [pools EXCEPT ![Val(calls[c].conn)].in_use = @ - 1]
    ELSE pools

(* Leaving `async with`: the connection goes back to its pool *)
ReleaseConnection(c) == [pools EXCEPT ![Val(calls[c].conn)].in_use = @ - 1]

(* conn.fetch / conn.fetchrow: the statement reaches the store, which runs *)
(* it or raises                                                             *)
Fetch(c) ==
    /\ calls[c].pc = "fetch"
    /\ LET call == [calls[c] EXCEPT !.pc = "release",
                                    !.sent = Append(@, QueryText(calls[c].sql))]
       IN  \/ /\ ledger' = StoreExecute(ledger, QueryText(calls[c].sql))
              /\ calls' = [calls EXCEPT ![c] = [call EXCEPT !.result = Some(call.attempt)]]
           \/ /\ \E t \in Transient \cup NonTransient :
                    calls' = [calls EXCEPT ![c] =
                                 [call EXCEPT !.error = Some(Error(t, call.attempt))]]
              /\ UNCHANGED ledger
    /\ UNCHANGED <<books, response, env, pool, pools>>

(* The operation leaves `async with`, by return or by exception: the       *)
(* connection is released, then the wrapper returns the result or handles  *)
(* the error                                                                *)
Release(c) ==
    /\ calls[c].pc = "release"
    /\ pools' = ReleaseConnection(c)
    /\ LET call == [calls[c] EXCEPT !.conn = NULL]
       IN  calls' = [calls EXCEPT ![c] =
                        IF IsNull(call.error) THEN [call EXCEPT !.pc = "returned"]
                        ELSE retry_on_db_error(call, Val(call.error))]
    /\ UNCHANGED <<books, ledger, response, env, pool>>

(* asyncio.sleep(wait_time) has elapsed: the loop goes on *)
Sleep(c) ==
    /\ calls[c].pc = "sleep"
    /\ calls' = [calls EXCEPT ![c].pc = "acquire"]
    /\ UNCHANGED <<books, ledger, response, env, pool, pools>>

(* dynamic_query: rows -> 200, ValueError -> 400, Exception -> 500 *)
QueryResponse(call) ==
    IF call.pc = "returned" THEN [status |-> 200, error |-> NULL]
    ELSE IF Val(call.error).type = "ValueError" THEN [status |-> 400, error |-> call.error]
    ELSE [status |-> 500, error |-> call.error]

(* run_query: the rows, "Query rejected: ..." on ValueError, "Query        *)
(* error: ..." on any other Exception                                       *)
RunQueryResponse(call) ==
    IF call.pc = "returned" THEN [text |-> "Query returned", error |-> NULL]
    ELSE IF Val(call.error).type = "ValueError"
    THEN [text |-> "Query rejected", error |-> call.error]
    ELSE [text |-> "Query error", error |-> call.error]

(* The other handlers: the result, or 500 / an error text *)
OperationResponse(call) ==
    IF call.pc = "returned" THEN [status |-> 200, error |-> NULL]
    ELSE [status |-> 500, error |-> call.error]

(* The handler turns the outcome of its call into the response *)
Respond(c) ==
    /\ calls[c].pc \in {"returned", "raised"}
    /\ calls' = [calls EXCEPT ![c].pc = "done",
                              ![c].response =
                                  Some(CASE calls[c].kind = "dynamic_query" ->
                                                QueryResponse(calls[c])
                                         [] calls[c].kind = "run_query" ->
                                                RunQueryResponse(calls[c])
                                         [] OTHER -> OperationResponse(calls[c]))]
    /\ UNCHANGED <<books, ledger, response, env, pool, pools>>

(* The caller has taken the response *)
Finish(c) ==
    /\ calls[c].pc = "done"
    /\ calls' = [calls EXCEPT ![c] = IdleCall]
    /\ UNCHANGED <<books, ledger, response, env, pool, pools>>

(* After construction: no pool yet, the settings present or not *)
InfraInit(n) ==
    /\ books = <<>>
    /\ env \in BOOLEAN
    /\ pool = [i \in Instances |-> NULL]
    /\ pools = <<>>
    /\ calls = [c \in 1..n |-> IdleCall]

(* One caller of POST /query and of the run_query tool at a time, over     *)
(* every statement of Queries                                               *)
InitQuery ==
    /\ ledger = SeedLedger
    /\ response = NoResponse
    /\ InfraInit(1)

NextQuery ==
    \/ \E c \in DOMAIN calls : Startup(c)
    \/ \E c \in DOMAIN calls : DynamicQuery(c, Queries)
    \/ \E c \in DOMAIN calls : RunQuery(c, Queries)
    \/ \E c \in DOMAIN calls : CreatePool(c)
    \/ \E c \in DOMAIN calls : Validate(c)
    \/ \E c \in DOMAIN calls : Gate(c)
    \/ \E c \in DOMAIN calls : Acquire(c)
    \/ \E c \in DOMAIN calls : Fetch(c)
    \/ \E c \in DOMAIN calls : Release(c)
    \/ \E c \in DOMAIN calls : Sleep(c)
    \/ \E c \in DOMAIN calls : Respond(c)
    \/ \E c \in DOMAIN calls : Finish(c)

SpecQuery == InitQuery /\ [][NextQuery]_vars

(* The service with its reads, its inserts and its ad hoc queries: one     *)
(* request at a time, the queries over SampleQueries, both instances       *)
(* connected.  The run_query tool hands its statement to the same          *)
(* execute_read_query as POST /query; the steps of the two differ before   *)
(* the guard and after the call only (SpecQuery has both)                   *)
InitLedger ==
    /\ books = <<>>
    /\ ledger = SeedLedger
    /\ response = NoResponse
    /\ env = TRUE
    /\ pool = [i \in Instances |-> IF i = "db_ops" THEN Some(1) ELSE Some(2)]
    /\ pools = <<[closed |-> FALSE, in_use |-> 0], [closed |-> FALSE, in_use |-> 0]>>
    /\ calls = [c \in {1} |-> IdleCall]

(* No query is in progress, no response is waiting for its caller *)
Quiet == response.op = "none" /\ \A c \in DOMAIN calls : calls[c].pc = "idle"

NextLedger ==
    \/ Quiet /\ InsertEvent
    \/ Quiet /\ PortfolioSummary
    \/ Quiet /\ AllPortfolioSummaries
    \/ Quiet /\ ToolAllPortfolioSummaries
    \/ Quiet /\ AccountAnalysisContext
    \/ Quiet /\ ToolAccountAnalysisContext
    \/ Quiet /\ LatestPrice
    \/ Return
    \/ Quiet /\ \E c \in DOMAIN calls : DynamicQuery(c, SampleQueries)
    \/ \E c \in DOMAIN calls : Gate(c)
    \/ \E c \in DOMAIN calls : Acquire(c)
    \/ \E c \in DOMAIN calls : Fetch(c)
    \/ \E c \in DOMAIN calls : Release(c)
    \/ \E c \in DOMAIN calls : Sleep(c)
    \/ \E c \in DOMAIN calls : Respond(c)
    \/ \E c \in DOMAIN calls : Finish(c)

SpecLedger == InitLedger /\ [][NextLedger]_vars

(* Concurrent requests through the REST service and the tools, each        *)
(* calling one decorated operation                                          *)
InitOps ==
    /\ ledger = SeedLedger
    /\ response = NoResponse
    /\ InfraInit(MaxCallers)

NextOps ==
    \/ \E c \in DOMAIN calls : Startup(c)
    \/ \E c \in DOMAIN calls : Operation(c)
    \/ \E c \in DOMAIN calls : ToolOperation(c)
    \/ \E c \in DOMAIN calls : CreatePool(c)
    \/ \E c \in DOMAIN calls : Validate(c)
    \/ \E c \in DOMAIN calls : Acquire(c)
    \/ \E c \in DOMAIN calls : Fetch(c)
    \/ \E c \in DOMAIN calls : Release(c)
    \/ \E c \in DOMAIN calls : Sleep(c)
    \/ \E c \in DOMAIN calls : Respond(c)
    \/ \E c \in DOMAIN calls : Finish(c)

SpecOps == InitOps /\ [][NextOps]_vars

(* Concurrent requests through the REST service alone *)
NextRetry ==
    \/ \E c \in DOMAIN calls : Startup(c)
    \/ \E c \in DOMAIN calls : Operation(c)
    \/ \E c \in DOMAIN calls : CreatePool(c)
    \/ \E c \in DOMAIN calls : Validate(c)
    \/ \E c \in DOMAIN calls : Acquire(c)
    \/ \E c \in DOMAIN calls : Fetch(c)
    \/ \E c \in DOMAIN calls : Release(c)
    \/ \E c \in DOMAIN calls : Sleep(c)
    \/ \E c \in DOMAIN calls : Respond(c)
    \/ \E c \in DOMAIN calls : Finish(c)

SpecRetry == InitOps /\ [][NextRetry]_vars

(* The event loop runs every coroutine that can go on, and the pool hands  *)
(* a released connection to the waiters in turn                             *)
FairRetry ==
    \A c \in 1..MaxCallers :
        /\ SF_vars(Acquire(c))
        /\ WF_vars(Fetch(c))
        /\ WF_vars(Release(c))
        /\ WF_vars(Sleep(c))

SpecRetryFair == SpecRetry /\ FairRetry

----------------------------------------------------------------------------
(* Event listings: get_events_by_account, get_events_by_ticker,            *)
(* get_events_by_account_and_ticker and get_trade_history                   *)

MaxEventInserts == 1

(* An optional str argument is NULL (None) or Some(text); the text is       *)
(* empty, or an ISO 8601 timestamp                                          *)
EmptyStr == <<>>

IsoText(ts) == <<IsoStr(ts)>>

(* The start / end arguments a caller can give *)
Bounds == {NULL, Some(EmptyStr)} \cup {Some(IsoText(ts)) : ts \in 0..MaxTs}

(* The event_type argument a caller can give: none, or already upper-cased *)
TypeFilters == {NULL, Some(EmptyStr)} \cup {Some(<<type>>) : type \in EventTypes}

(* Python truth of an Optional[str]: `if start_ts:` *)
Truthy(x) == ~IsNull(x) /\ Val(x) # EmptyStr

(* `start or None` of the endpoints and the tools *)
OrNone(x) == IF Truthy(x) THEN x ELSE NULL

(* The timestamp the store reads from a bound parameter *)
BoundTs(x) == FromIsoFormat(Val(x)[1])

(* Mutant: both bounds exclusive *)
InRange_Exclusive(r, start_ts, end_ts) ==
    /\ Truthy(start_ts) => r.event_ts > BoundTs(start_ts)
    /\ Truthy(end_ts) => r.event_ts < BoundTs(end_ts)

(* if start_ts: event_ts >= $n;  if end_ts: event_ts <= $n *)
InRange(r, start_ts, end_ts) ==
    /\ Truthy(start_ts) => r.event_ts >= BoundTs(start_ts)
    /\ Truthy(end_ts) => r.event_ts <= BoundTs(end_ts)

(* ORDER BY event_ts DESC over the rows S of T: every order the store can  *)
(* return; rows of equal event_ts come in an order it chooses               *)
OrderByEventTsDesc(T, S) ==
    LET n == Cardinality(S)
        orders == {q \in [1..n -> S] :
                      /\ \A j, k \in 1..n : j # k => q[j] # q[k]
                      /\ \A k \in 1..(n - 1) : T[q[k]].event_ts >= T[q[k + 1]].event_ts}
    IN  {[k \in 1..n |-> T[q[k]]] : q \in orders}

get_events_by_account(T, account_id, start_ts, end_ts) ==
    OrderByEventTsDesc(T, {i \in DOMAIN T :
        T[i].account_id = account_id /\ InRange(T[i], start_ts, end_ts)})

get_events_by_ticker(T, ticker_symbol, start_ts, end_ts) ==
    OrderByEventTsDesc(T, {i \in DOMAIN T :
        T[i].ticker_symbol = ticker_symbol /\ InRange(T[i], start_ts, end_ts)})

get_events_by_account_and_ticker(T, account_id, ticker_symbol, start_ts, end_ts) ==
    OrderByEventTsDesc(T, {i \in DOMAIN T :
        /\ T[i].account_id = account_id
        /\ T[i].ticker_symbol = ticker_symbol
        /\ InRange(T[i], start_ts, end_ts)})

(* event_type = $2 when a type is given, else event_type IN ('BUY','SELL') *)
get_trade_history(T, account_id, event_type, start_ts, end_ts) ==
    OrderByEventTsDesc(T, {i \in DOMAIN T :
        /\ T[i].account_id = account_id
        /\ IF Truthy(event_type) THEN T[i].event_type = Val(event_type)[1]
           ELSE T[i].event_type \in {"BUY", "SELL"}
        /\ InRange(T[i], start_ts, end_ts)})

(* GET /portfolio/{account_id}/events and the get_account_events tool *)
AccountEvents ==
    /\ response.op = "none"
    /\ \E a \in Accounts, start \in Bounds, end \in Bounds :
       \E rows \in get_events_by_account(ledger, a, OrNone(start), OrNone(end)) :
          response' = [op |-> "get_events_by_account", account_id |-> a,
                       start |-> start, end |-> end, rows |-> rows]
    /\ UNCHANGED <<books, ledger, infra>>

(* GET /ticker/{ticker_symbol}/events and the get_ticker_events tool *)
TickerEvents ==
    /\ response.op = "none"
    /\ \E t \in Tickers, start \in Bounds, end \in Bounds :
       \E rows \in get_events_by_ticker(ledger, t, OrNone(start), OrNone(end)) :
          response' = [op |-> "get_events_by_ticker", ticker_symbol |-> t,
                       start |-> start, end |-> end, rows |-> rows]
    /\ UNCHANGED <<books, ledger, infra>>

(* GET /portfolio/{account_id}/{ticker_symbol}/events and its tool *)
AccountTickerEvents ==
    /\ response.op = "none"
    /\ \E a \in Accounts, t \in Tickers, start \in Bounds, end \in Bounds :
       \E rows \in get_events_by_account_and_ticker(ledger, a, t,
                                                    OrNone(start), OrNone(end)) :
          response' = [op |-> "get_events_by_account_and_ticker", account_id |-> a,
                       ticker_symbol |-> t, start |-> start, end |-> end,
                       rows |-> rows]
    /\ UNCHANGED <<books, ledger, infra>>

(* GET /portfolio/{account_id}/trades and the get_trade_history tool *)
TradeHistory ==
    /\ response.op = "none"
    /\ \E a \in Accounts, type \in TypeFilters, start \in Bounds, end \in Bounds :
       \E rows \in get_trade_history(ledger, a, OrNone(type),
                                     OrNone(start), OrNone(end)) :
          response' = [op |-> "get_trade_history", account_id |-> a,
                       event_type |-> type, start |-> start, end |-> end,
                       rows |-> rows]
    /\ UNCHANGED <<books, ledger, infra>>

NextEvents ==
    \/ Inserted(ledger) < MaxEventInserts /\ InsertEvent
    \/ AccountEvents
    \/ TickerEvents
    \/ AccountTickerEvents
    \/ TradeHistory
    \/ Return

SpecEvents == Init /\ [][NextEvents]_vars

----------------------------------------------------------------------------
(* What the documentation says a position is, read off the ledger directly *)

RECURSIVE RefTotal(_, _)
RefTotal(f, n) == IF n = 0 THEN 0 ELSE f[n] + RefTotal(f, n - 1)

KeyRows(a, t) ==
    {i \in DOMAIN ledger : ledger[i].account_id = a /\ ledger[i].ticker_symbol = t}

RefShares(a, t, type) ==
    RefTotal([i \in DOMAIN ledger |->
                 IF i \in KeyRows(a, t) /\ ledger[i].event_type = type
                 THEN ledger[i].shares ELSE 0], Len(ledger))

RefCost(a, t, type) ==
    RefTotal([i \in DOMAIN ledger |->
                 IF i \in KeyRows(a, t) /\ ledger[i].event_type = type
                 THEN ledger[i].shares * ledger[i].price_per_share ELSE 0], Len(ledger))

RefNetShares(a, t) == RefShares(a, t, "BUY") - RefShares(a, t, "SELL")

RefNetCost(a, t) == RefCost(a, t, "BUY") - RefCost(a, t, "SELL")

RefPriceRows(a, t) == {i \in KeyRows(a, t) : ledger[i].event_type = "PRICE"}

(* The response is the list of positions of get_portfolio_summary *)
SummaryResp == response.op = "get_portfolio_summary"

(* The response is an analysis context (endpoint or tool) with holdings *)
ContextResp ==
    \/ response.op = "account_analysis_context" /\ response.status = 200
    \/ response.op = "tool_get_account_analysis_context" /\ "error" \notin DOMAIN response

Positions == IF SummaryResp THEN response.rows ELSE response.holdings

(* The ledger with its rows in another insertion order *)
Reordered == {[i \in DOMAIN ledger |-> ledger[p[i]]] : p \in Permutations(DOMAIN ledger)}

----------------------------------------------------------------------------
(* C1: every position returned by get_portfolio_summary and by             *)
(* get_account_analysis_context has net_shares = sum of BUY shares minus   *)
(* sum of SELL shares of its (account, ticker) key and net_cost = sum of   *)
(* shares*price over BUY minus over SELL; PRICE rows add nothing; every    *)
(* key of the account has a position; the values are the same for every    *)
(* insertion order of the same events.                                      *)
C1_NetPosition ==
    (SummaryResp \/ ContextResp) =>
        LET a == response.account_id
        IN  /\ \A t \in Tickers :
                KeyRows(a, t) # {} =>
                    \E n \in DOMAIN Positions : Positions[n].ticker_symbol = t
            /\ \A n \in DOMAIN Positions :
                LET pos == Positions[n]
                    t   == pos.ticker_symbol
                IN  /\ pos.net_shares = RefNetShares(a, t)
                    /\ pos.net_cost = RefNetCost(a, t)
                    /\ \A P \in Reordered :
                        LET grp == {i \in DOMAIN P : /\ P[i].account_id = a
                                                     /\ P[i].ticker_symbol = t}
                        IN  /\ net_shares(P, grp) = pos.net_shares
                            /\ net_cost(P, grp) = pos.net_cost

(* A position whose key holds a BUY, a SELL and a PRICE row with shares > 0 *)
C1_Witness ==
    /\ SummaryResp \/ ContextResp
    /\ \E n \in DOMAIN Positions :
        LET rows == KeyRows(response.account_id, Positions[n].ticker_symbol)
        IN  /\ \E i \in rows : ledger[i].event_type = "BUY"
            /\ \E i \in rows : ledger[i].event_type = "SELL"
            /\ \E i \in rows : ledger[i].event_type = "PRICE" /\ ledger[i].shares > 0

(* C2: for a key with at least one PRICE row in the account, last_price    *)
(* and last_price_ts are those of a PRICE row of the key with the greatest *)
(* event_ts; get_latest_price returns a PRICE row of the ticker with the   *)
(* greatest event_ts over all accounts, and None when there is none.       *)
C2_LatestPrice ==
    /\ (SummaryResp \/ ContextResp) =>
        \A n \in DOMAIN Positions :
            LET pos == Positions[n]
                pr  == RefPriceRows(response.account_id, pos.ticker_symbol)
            IN  pr # {} =>
                    /\ ~IsNull(pos.last_price)
                    /\ ~IsNull(pos.last_price_ts)
                    /\ \E i \in pr :
                        /\ \A j \in pr : ledger[j].event_ts <= ledger[i].event_ts
                        /\ Val(pos.last_price) = ledger[i].price_per_share
                        /\ Val(pos.last_price_ts) =
                              IF SummaryResp THEN ledger[i].event_ts
                              ELSE IsoStr(ledger[i].event_ts)
    /\ response.op = "get_latest_price" =>
        LET pr == {i \in DOMAIN ledger : /\ ledger[i].ticker_symbol = response.ticker_symbol
                                         /\ ledger[i].event_type = "PRICE"}
        IN  /\ IsNull(response.row) <=> pr = {}
            /\ pr # {} =>
                \E i \in pr :
                    /\ \A j \in pr : ledger[j].event_ts <= ledger[i].event_ts
                    /\ Val(response.row).price_per_share = ledger[i].price_per_share
                    /\ Val(response.row).event_ts = ledger[i].event_ts
                    /\ Val(response.row).ticker_symbol = response.ticker_symbol

(* The latest PRICE row is neither the highest price nor the last inserted *)
C2_Witness ==
    /\ SummaryResp \/ ContextResp
    /\ \E n \in DOMAIN Positions :
        LET pos == Positions[n]
            pr  == RefPriceRows(response.account_id, pos.ticker_symbol)
        IN  \E i, j \in pr :
                /\ i < j
                /\ ledger[i].event_ts > ledger[j].event_ts
                /\ ledger[i].price_per_share < ledger[j].price_per_share
                /\ pos.last_price = Some(ledger[i].price_per_share)

C4_UnrealizedPnl ==
    ContextResp =>
        \A n \in DOMAIN response.holdings :
            LET h == response.holdings[n]
                a == response.account_id
            IN  /\ IsNull(h.unrealized_pnl) <=> IsNull(h.last_price)
                /\ ~IsNull(h.last_price) =>
                    Val(h.unrealized_pnl) =
                        RefNetShares(a, h.ticker_symbol) * Val(h.last_price)
                            - RefNetCost(a, h.ticker_symbol)

(* A priced position with negative net_shares has an unrealized_pnl *)
C4_Witness ==
    /\ ContextResp
    /\ \E n \in DOMAIN response.holdings :
        /\ response.holdings[n].net_shares < 0
        /\ ~IsNull(response.holdings[n].last_price)
        /\ ~IsNull(response.holdings[n].unrealized_pnl)

(* The response is the table of the get_all_portfolio_summaries tool *)
AllToolResp == response.op = "tool_get_all_portfolio_summaries"

(* Ticker t carries the flag in the anomalies list of the response *)
Flagged(flag, t) ==
    \E k \in DOMAIN response.anomalies :
        response.anomalies[k].flag = flag /\ response.anomalies[k].ticker = t

(* Row n of the all-accounts table carries the flag in its Flags column *)
RowFlagged(flag, n) ==
    \E k \in DOMAIN response.flags[n] : response.flags[n][k].flag = flag

(* Whole days between the newest PRICE row of the key and the instant now *)
RefPriceAgeDays(a, t, now) ==
    LET newest == CHOOSE i \in RefPriceRows(a, t) :
                      \A j \in RefPriceRows(a, t) : ledger[j].event_ts <= ledger[i].event_ts
    IN  (now - ledger[newest].event_ts) \div TicksPerDay

(* C5: total_market_value is the sum of net_shares * last_price over the   *)
(* holdings with net_shares > 0 and a price; every ticker of the account   *)
(* is in the holdings list once, whatever its sign or price, and           *)
(* total_positions = len(holdings) = positions_with_price +                *)
(* positions_no_price.                                                      *)
C5_TotalMarketValue ==
    ContextResp =>
        LET hs == response.holdings
            sm == Val(response.summary)
        IN  /\ sm.total_market_value =
                  RefTotal([n \in DOMAIN hs |->
                               IF hs[n].net_shares > 0 /\ ~IsNull(hs[n].last_price)
                               THEN hs[n].net_shares * Val(hs[n].last_price) ELSE 0],
                           Len(hs))
            /\ sm.total_positions = Len(hs)
            /\ sm.total_positions = sm.positions_with_price + sm.positions_no_price
            /\ \A t \in Tickers :
                Cardinality({n \in DOMAIN hs : hs[n].ticker_symbol = t}) =
                    IF KeyRows(response.account_id, t) # {} THEN 1 ELSE 0

(* A long priced position next to an oversold or unpriced one *)
C5_Witness ==
    /\ ContextResp
    /\ Val(response.summary).total_market_value > 0
    /\ Val(response.summary).total_positions = 2
    /\ \E n \in DOMAIN response.holdings :
        \/ response.holdings[n].net_shares < 0 /\ ~IsNull(response.holdings[n].last_price)
        \/ IsNull(response.holdings[n].last_price)

C7_Oversell ==
    /\ ContextResp =>
        \A n \in DOMAIN response.holdings :
            LET t == response.holdings[n].ticker_symbol
            IN  Flagged("OVERSELL", t) <=> RefNetShares(response.account_id, t) < 0
    /\ AllToolResp =>
        \A n \in DOMAIN response.rows :
            RowFlagged("OVERSELL", n) <=>
                RefNetShares(response.rows[n].account_id, response.rows[n].ticker_symbol) < 0

(* A flat position (bought and sold out) is not flagged, an oversold one is *)
C7_Witness ==
    /\ ContextResp
    /\ \E n, m \in DOMAIN response.holdings :
        /\ response.holdings[n].net_shares = 0
        /\ ~Flagged("OVERSELL", response.holdings[n].ticker_symbol)
        /\ response.holdings[m].net_shares < 0
        /\ Flagged("OVERSELL", response.holdings[m].ticker_symbol)

(* C8: STALE_PRICE is raised for a priced position iff the age of its last *)
(* price in whole days is >= 30 (29 days: no flag, exactly 30 days: flag), *)
(* in the analysis-context endpoint, in the get_account_analysis_context   *)
(* tool and in the get_all_portfolio_summaries tool.                        *)
C8_StalePrice ==
    /\ ContextResp =>
        \A n \in DOMAIN response.holdings :
            LET t == response.holdings[n].ticker_symbol
            IN  ~IsNull(response.holdings[n].last_price) =>
                    (Flagged("STALE_PRICE", t) <=>
                        RefPriceAgeDays(response.account_id, t, response.as_of_date) >= 30)
    /\ AllToolResp =>
        \A n \in DOMAIN response.rows :
            ~IsNull(response.rows[n].last_price) =>
                (RowFlagged("STALE_PRICE", n) <=>
                    RefPriceAgeDays(response.rows[n].account_id,
                                    response.rows[n].ticker_symbol, response.now) >= 30)

(* C8, the part the code keeps: in the analysis-context endpoint and in    *)
(* the get_account_analysis_context tool STALE_PRICE is raised iff the age *)
(* is >= 30 whole days.                                                     *)
C8_StalePriceContext ==
    ContextResp =>
        \A n \in DOMAIN response.holdings :
            LET t == response.holdings[n].ticker_symbol
            IN  ~IsNull(response.holdings[n].last_price) =>
                    (Flagged("STALE_PRICE", t) <=>
                        RefPriceAgeDays(response.account_id, t, response.as_of_date) >= 30)

(* C9: a position of account A for ticker T is flagged MISSING_PRICE, with *)
(* last_price and last_price_ts null, iff the ledger holds no PRICE row of *)
(* account A and ticker T; PRICE rows of T in other accounts do not count; *)
(* the account still gets a normal response.                                *)
C9_MissingPrice ==
    /\ ContextResp =>
        \A n \in DOMAIN response.holdings :
            LET h == response.holdings[n]
                unpriced == RefPriceRows(response.account_id, h.ticker_symbol) = {}
            IN  /\ Flagged("MISSING_PRICE", h.ticker_symbol) <=> unpriced
                /\ IsNull(h.last_price) <=> unpriced
                /\ IsNull(h.last_price_ts) <=> unpriced
    /\ response.op \in {"account_analysis_context", "tool_get_account_analysis_context"} =>
        ((\E t \in Tickers : /\ KeyRows(response.account_id, t) # {}
                             /\ RefPriceRows(response.account_id, t) = {})
            => ContextResp)

(* The ticker is priced in another account only, and is flagged here *)
C9_Witness ==
    /\ ContextResp
    /\ \E n \in DOMAIN response.holdings :
        LET t == response.holdings[n].ticker_symbol
        IN  /\ Flagged("MISSING_PRICE", t)
            /\ IsNull(response.holdings[n].last_price)
            /\ \E i \in DOMAIN ledger :
                /\ ledger[i].ticker_symbol = t
                /\ ledger[i].event_type = "PRICE"
                /\ ledger[i].account_id # response.account_id

AnyContextResp ==
    response.op \in {"account_analysis_context", "tool_get_account_analysis_context"}

(* The response is 'not found': HTTP 404, or the 'No holdings found' error *)
NotFoundResp ==
    \/ response.op = "account_analysis_context" /\ response.status = 404
    \/ /\ response.op = "tool_get_account_analysis_context"
       /\ "error" \in DOMAIN response
       /\ response.error = "No holdings found"

(* C11: the analysis-context endpoint and tool answer 'not found' iff the  *)
(* ledger holds no event of the account; an account with events gets its   *)
(* summary, one holding per ticker and the anomalies list, also when every *)
(* holding is anomalous.                                                    *)
C11_NotFound ==
    AnyContextResp =>
        LET events == {i \in DOMAIN ledger : ledger[i].account_id = response.account_id}
        IN  /\ NotFoundResp <=> events = {}
            /\ NotFoundResp <=> ~ContextResp
            /\ events # {} =>
                /\ ~IsNull(response.summary)
                /\ {response.holdings[n].ticker_symbol : n \in DOMAIN response.holdings}
                       = {ledger[i].ticker_symbol : i \in events}
                /\ "anomalies" \in DOMAIN response

(* Every holding of the account is anomalous and nothing has market value, *)
(* and the answer is the normal one                                         *)
C11_Witness ==
    /\ ContextResp
    /\ Len(response.holdings) = 2
    /\ Val(response.summary).total_market_value = 0
    /\ \A n \in DOMAIN response.holdings :
        \E f \in {"OVERSELL", "MISSING_PRICE", "STALE_PRICE"} :
            Flagged(f, response.holdings[n].ticker_symbol)

----------------------------------------------------------------------------
(* Requests in progress, as the claims about them read them *)

(* Caller c is in, or has just finished, a POST /query or run_query call *)
IsQuery(c) == calls[c].kind \in {"dynamic_query", "run_query"}

(* The rule of the documentation on the text of a statement: it is turned  *)
(* down when, lower-cased and trimmed, it does not begin with select or    *)
(* holds one of the keywords anywhere                                       *)
RefKeywords ==
    { <<"i", "n", "s", "e", "r", "t">>, <<"u", "p", "d", "a", "t", "e">>, <<"d", "e", "l", "e", "t", "e">>, <<"d", "r", "o", "p">>, <<"t", "r", "u", "n", "c", "a", "t", "e">>, <<"a", "l", "t", "e", "r">>, <<"c", "r", "e", "a", "t", "e">>,
      <<"r", "e", "p", "l", "a", "c", "e">>, <<"u", "p", "s", "e", "r", "t">>, <<"m", "e", "r", "g", "e">>, <<"g", "r", "a", "n", "t">>, <<"r", "e", "v", "o", "k", "e">>, <<"c", "o", "p", "y">>, <<"v", "a", "c", "u", "u", "m">>,
      <<"p", "g", "_">>, <<"i", "n", "f", "o", "r", "m", "a", "t", "i", "o", "n", "_", "s",
          "c", "h", "e", "m", "a">> }

RefTurnedDown(sql) ==
    LET text == strip(lower(sql))
    IN  \/ Len(text) < 6
        \/ SubSeq(text, 1, 6) # <<"s", "e", "l", "e", "c", "t">>
        \/ \E k \in RefKeywords :
              \E i \in 0..(Len(text) - Len(k)) : \A j \in 1..Len(k) : text[i + j] = k[j]

(* The error of call is one raised by the guard of execute_read_query *)
GateError(call) == ~IsNull(call.error) /\ "msg" \in DOMAIN Val(call.error)

(* C12: a statement whose lower-cased, trimmed text does not begin with    *)
(* select, or holds a forbidden keyword anywhere and in any letter case,   *)
(* is rejected by execute_read_query with a ValueError before a connection *)
(* is acquired and before anything is sent to the store (a run_query call  *)
(* can fail earlier, while the tool connects); for every other statement   *)
(* the guard raises nothing and what reaches the store is the text the     *)
(* caller gave, unchanged.                                                  *)
C12_ReadOnlyGate ==
    \A c \in DOMAIN calls :
        IsQuery(c) =>
            LET call == calls[c]
            IN  IF RefTurnedDown(call.sql)
                THEN /\ call.acquired = 0
                     /\ call.sent = <<>>
                     /\ call.attempt = 0
                     /\ call.pc \in {"create_pool", "validate", "gate", "raised", "done"}
                     /\ IsNull(call.result)
                     /\ call.pc = "raised" =>
                            \/ /\ GateError(call)
                               /\ Val(call.error).type = "ValueError"
                               /\ \/ Val(call.error).kw = <<>>
                                  \/ contains(strip(lower(call.sql)), Val(call.error).kw)
                            \/ /\ call.kind = "run_query"
                               /\ IsNull(pool["_ops"])
                ELSE /\ ~GateError(call)
                     /\ \A n \in DOMAIN call.sent : call.sent[n] = call.sql

(* A select whose only keyword sits in a quoted literal, written in upper  *)
(* or mixed case with white space around it, has been turned down with 400 *)
C12_Witness ==
    \E c \in DOMAIN calls :
        /\ calls[c].kind = "dynamic_query"
        /\ calls[c].pc = "done"
        /\ Val(calls[c].response).status = 400
        /\ calls[c].sent = <<>>
        /\ calls[c].sql # lower(calls[c].sql)
        /\ calls[c].sql # strip(calls[c].sql)
        /\ contains(calls[c].sql, <<"'">>)
        /\ SubSeq(strip(lower(calls[c].sql)), 1, 6) = <<"s", "e", "l", "e", "c", "t">>

(* The response tells the caller the request was invalid *)
ClientError(call) ==
    \/ call.kind = "dynamic_query" /\ Val(call.response).status = 400
    \/ call.kind = "run_query" /\ Val(call.response).text = "Query rejected"

(* The response tells the caller the store failed *)
ServerError(call) ==
    \/ call.kind = "dynamic_query" /\ Val(call.response).status = 500
    \/ call.kind = "run_query" /\ Val(call.response).text = "Query error"

(* C13: POST /query and run_query report a client error (400 / 'Query      *)
(* rejected') iff the read-only guard rejected the statement, and report   *)
(* an error of the store as a server error (500 / 'Query error').          *)
C13_ClientError ==
    \A c \in DOMAIN calls :
        (IsQuery(c) /\ calls[c].pc = "done") =>
            /\ ClientError(calls[c]) <=> GateError(calls[c])
            /\ (~IsNull(calls[c].error) /\ ~GateError(calls[c])
                    /\ Val(calls[c].error).type \in Transient \cup NonTransient)
                   => ServerError(calls[c])

(* C13, the part the code keeps: POST /query answers 400 iff the guard     *)
(* rejected the statement, and both handlers report an error of the store  *)
(* as a server error.                                                       *)
C13_ClientErrorApi ==
    \A c \in DOMAIN calls :
        (IsQuery(c) /\ calls[c].pc = "done") =>
            /\ calls[c].kind = "dynamic_query" =>
                   (ClientError(calls[c]) <=> GateError(calls[c]))
            /\ (~IsNull(calls[c].error) /\ ~GateError(calls[c])
                    /\ Val(calls[c].error).type \in Transient \cup NonTransient)
                   => ServerError(calls[c])

Entered(call) == call.attempt >= 1

TransientError(call) == ~IsNull(call.error) /\ Val(call.error).type \in Transient

(* What C15 says of one call at one moment: at most 3 attempts; the waits  *)
(* so far are 0.5 s, then 1.0 s, one after each failed attempt but the     *)
(* third; a wait follows a transient error only; a success ends the call   *)
(* with the result of that attempt; a transient error is raised from the   *)
(* third attempt only                                                       *)
C15_Attempts(call) ==
    /\ call.attempt <= 3
    /\ call.waits \in {<<>>, <<500>>, <<500, 1000>>}
    /\ call.pc \in {"fetch", "release", "returned", "raised"} /\ Entered(call)
           => Len(call.waits) = call.attempt - 1
    /\ call.pc = "sleep" =>
           /\ TransientError(call)
           /\ call.attempt < 3
           /\ Len(call.waits) = call.attempt
    /\ call.pc = "acquire" => Len(call.waits) = call.attempt
    /\ call.pc = "returned" /\ call.kind # "startup" => call.result = Some(call.attempt)
    /\ call.pc = "raised" /\ TransientError(call) =>
           /\ call.attempt = 3
           /\ Val(call.error).at = 3

(* C15: a call of an operation wrapped by retry_on_db_error(max_retries=3) *)
(* makes at most 3 attempts, waits 0.5 s and then 1.0 s between them after *)
(* transient errors, returns the result of the first attempt that succeeds *)
(* without a further attempt, raises the transient error of the third      *)
(* attempt without a further wait, and always comes to an end.             *)
C15_RetryBounded ==
    /\ [](\A c \in DOMAIN calls : C15_Attempts(calls[c]))
    /\ \A c \in 1..MaxCallers :
          (calls[c].pc = "acquire") ~> (calls[c].pc \in {"returned", "raised"})

(* One call has raised the transient error of its third attempt after both *)
(* waits, another has returned the result of its second attempt            *)
C15_Witness ==
    \E c, d \in DOMAIN calls :
        /\ calls[c].pc = "raised"
        /\ TransientError(calls[c])
        /\ calls[c].waits = <<500, 1000>>
        /\ calls[d].pc = "returned"
        /\ calls[d].result = Some(2)
        /\ calls[d].waits = <<500>>

(* C16: an error outside the three transient classes ends the call on the  *)
(* attempt it occurs on, first or later: it is raised to the caller as it  *)
(* is, with no wait and no attempt after it, and reaches the response.     *)
C16_NonTransient ==
    \A c \in DOMAIN calls :
        LET call == calls[c]
        IN  (Entered(call) /\ ~IsNull(call.error) /\ ~TransientError(call)) =>
                /\ call.pc \in {"release", "raised", "done"}
                /\ Val(call.error).at = call.attempt
                /\ Len(call.waits) = call.attempt - 1
                /\ call.pc = "done" => Val(call.response).error = call.error

(* A constraint violation on the second attempt, after one transient error *)
(* and one wait, has been raised                                            *)
C16_Witness ==
    \E c \in DOMAIN calls :
        /\ calls[c].pc = "raised"
        /\ calls[c].error = Some(Error("UniqueViolationError", 2))
        /\ calls[c].waits = <<500>>

(* Connections of pool p that callers hold *)
Holders(p) == {c \in DOMAIN calls : calls[c].conn = Some(p)}

(* C17: a call holds a connection only between acquiring it and leaving    *)
(* the operation: never while it waits before a retry, nor once it has     *)
(* returned or raised; the connections checked out of a pool are those its *)
(* callers hold, never more than the pool's size, and none when no request *)
(* is in progress.                                                          *)
C17_ConnectionReleased ==
    /\ \A c \in DOMAIN calls :
          ~IsNull(calls[c].conn) <=> calls[c].pc \in {"fetch", "release"}
    /\ \A p \in DOMAIN pools :
          /\ pools[p].in_use = Cardinality(Holders(p))
          /\ pools[p].in_use <= MaxSize
    /\ (\A c \in DOMAIN calls : calls[c].pc \in {"idle", "done"}) =>
          \A p \in DOMAIN pools : pools[p].in_use = 0

(* One call waits before its retry after a failed statement and holds no   *)
(* connection, while another holds the last connection of the same pool    *)
C17_Witness ==
    \E c, d \in DOMAIN calls :
        /\ calls[c].pc = "sleep"
        /\ calls[c].acquired >= 1
        /\ IsNull(calls[c].conn)
        /\ calls[d].pc = "fetch"
        /\ calls[d].inst = calls[c].inst
        /\ pools[Val(calls[d].conn)].in_use = MaxSize

(* Pools that were created and not closed *)
OpenPools == {p \in DOMAIN pools : ~pools[p].closed}

(* C20: an instance keeps at most one pool: every pool that was created    *)
(* and not closed is the pool its instance holds, also when two tool       *)
(* invocations reach _get_ops while the instance has no pool yet.          *)
C20_SinglePool ==
    \A p \in OpenPools : \E inst \in Instances : pool[inst] = Some(p)

(* Every list of positions a call of get_portfolio_summary for account a   *)
(* can return over the ledger as it is                                      *)
SummaryResults(a) ==
    {get_portfolio_summary(ledger, a, rp) : rp \in ranked_prices(ledger, a)}

(* Every list of holdings a call of get_account_analysis_context for        *)
(* account a can return over the ledger as it is                            *)
ContextResults(a) ==
    UNION {{get_account_analysis_context(ledger, a, rp, ord).holdings :
               ord \in OrderByMarketValueDesc(holdings(ledger, a, rp))} :
           rp \in ranked_prices(ledger, a)}

(* C18: a second call of get_portfolio_summary or of                        *)
(* get_account_analysis_context for the same account over the same ledger  *)
(* returns the positions the first call returned, also when several PRICE  *)
(* rows of a key share its greatest event_ts.                               *)
C18_Idempotent ==
    /\ SummaryResp => SummaryResults(response.account_id) = {response.rows}
    /\ ContextResp => ContextResults(response.account_id) = {response.holdings}

(* The response is an event listing *)
EventsResp ==
    response.op \in {"get_events_by_account", "get_events_by_ticker",
                     "get_events_by_account_and_ticker", "get_trade_history"}

(* The caller gave this bound: neither absent nor the empty string *)
Given(x) == x # NULL /\ x # Some(EmptyStr)

(* Row r is of the key the response was asked for *)
RefOfKey(r) ==
    /\ "account_id" \in DOMAIN response => r.account_id = response.account_id
    /\ "ticker_symbol" \in DOMAIN response => r.ticker_symbol = response.ticker_symbol
    /\ response.op = "get_trade_history" =>
          IF Given(response.event_type)
          THEN r.event_type = Val(response.event_type)[1]
          ELSE r.event_type \in {"BUY", "SELL"}

(* start <= event_ts <= end, for the bounds the caller gave *)
RefInRange(r) ==
    /\ Given(response.start) => FromIsoFormat(Val(response.start)[1]) <= r.event_ts
    /\ Given(response.end) => r.event_ts <= FromIsoFormat(Val(response.end)[1])

RefMatching == {i \in DOMAIN ledger : RefOfKey(ledger[i]) /\ RefInRange(ledger[i])}

RowsOfAccount(rows, a) ==
    LET OfAccount(r) == r.account_id = a
    IN  SelectSeq(rows, OfAccount)

(* C21: the rows of get_all_portfolio_summaries of an account are the rows *)
(* get_portfolio_summary returns for that account: the same tickers in     *)
(* ascending order with the same net_shares, net_cost, last_price,         *)
(* last_price_ts and last_event_ts.                                         *)
C21_AllLikeSingle ==
    response.op = "get_all_portfolio_summaries" =>
        \A a \in Accounts : RowsOfAccount(response.rows, a) \in SummaryResults(a)

----------------------------------------------------------------------------
(* The anomaly loops of the endpoint and of the tool, applied to the same  *)
(* holdings list at the same instant                                        *)

MaxHoldings == 2

(* Texts of last_price_ts: timestamp 0 or one tick later, written with an  *)
(* offset, with Z, without a zone, or with a zone fromisoformat rejects    *)
PriceTsTexts ==
    {[date |-> 0, time |-> tm, tz |-> z] : tm \in {0, 1}, z \in {"+00:00", "Z", "", "?"}}

(* The fields of a holding the loops read *)
HoldingInputs(t) ==
    [ticker_symbol : {t}, net_shares : {0 - 1, 0, 1},
     last_price : {NULL, Some(1)},
     last_price_ts : {NULL} \cup {Some(x) : x \in PriceTsTexts}]

(* Holdings lists of up to MaxHoldings tickers, one holding per ticker *)
HoldingLists ==
    UNION {{hs \in [1..n -> UNION {HoldingInputs(t) : t \in Tickers}] :
               \A j, k \in 1..n : j # k => hs[j].ticker_symbol # hs[k].ticker_symbol} :
           n \in 1..MaxHoldings}

(* Both loops run over result["holdings"] with now = datetime.now(utc) *)
Anomalies ==
    /\ response.op = "none"
    /\ \E hs \in HoldingLists, now \in NowSet :
          response' = [op |-> "anomalies", holdings |-> hs, now |-> now,
                       api |-> ApiAnomalies(hs, now),
                       tool |-> ToolAnomalies(hs, now)]
    /\ UNCHANGED <<books, ledger, infra>>

NextAnomalies ==
    \/ Anomalies
    \/ Return

SpecAnomalies == Init /\ [][NextAnomalies]_vars

(* The flags and tickers of a list of anomalies, in order *)
Flags(as) == [k \in DOMAIN as |-> <<as[k].flag, as[k].ticker>>]

(* The text of last_price_ts of holding h is one fromisoformat rejects *)
Unparsable(h) ==
    /\ ~IsNull(h.last_price_ts)
    /\ Val(h.last_price_ts).tz \notin {"+00:00", "Z", ""}

(* C22: over the same holdings at the same instant the endpoint and the    *)
(* tool emit the same flags for the same tickers in the same order: the    *)
(* holdings in their order, per holding OVERSELL first and then one of     *)
(* MISSING_PRICE and STALE_PRICE; a priced holding whose last_price_ts     *)
(* cannot be parsed gets no price flag from either.                         *)
C22_SameAnomalies ==
    response.op = "anomalies" =>
        LET api  == response.api
            tool == response.tool
            hs   == response.holdings
            pos(t) == CHOOSE n \in DOMAIN hs : hs[n].ticker_symbol = t
        IN  /\ Flags(api) = Flags(tool)
            /\ \A j, k \in DOMAIN api : j < k =>
                  \/ pos(api[j].ticker) < pos(api[k].ticker)
                  \/ /\ api[j].ticker = api[k].ticker
                     /\ api[j].flag = "OVERSELL"
                     /\ api[k].flag \in {"MISSING_PRICE", "STALE_PRICE"}
            /\ \A n \in DOMAIN hs :
                  (~IsNull(hs[n].last_price) /\ Unparsable(hs[n])) =>
                      \A k \in DOMAIN api :
                          api[k].ticker = hs[n].ticker_symbol => api[k].flag = "OVERSELL"

(* An oversold holding with a price exactly STALE_DAYS old gets both flags *)
(* from both, and a second, priced holding with an unreadable timestamp    *)
(* gets none                                                                *)
C22_Witness ==
    /\ response.op = "anomalies"
    /\ Len(response.holdings) = 2
    /\ Flags(response.tool) = <<<<"OVERSELL", response.holdings[1].ticker_symbol>>,
                                <<"STALE_PRICE", response.holdings[1].ticker_symbol>>>>
    /\ Days(response.now - FromIsoFormat(Val(response.holdings[1].last_price_ts))) = STALE_DAYS
    /\ ~IsNull(response.holdings[2].last_price)
    /\ Unparsable(response.holdings[2])

----------------------------------------------------------------------------
(* DatabaseOperations: the shared pool and the project status operations   *)
(* that use it, one step per acquire, release and branch                    *)

DbMaxSize == 2

(* The pool DatabaseOperations.initialize created *)
DbPool == 1

(* No trading instance is connected; the pool of DatabaseOperations is     *)
(* open and idle; no call is in progress                                    *)
InitRollup ==
    /\ books = <<>>
    /\ ledger = SeedLedger
    /\ response = NoResponse
    /\ env = TRUE
    /\ pool = [i \in Instances |-> NULL]
    /\ pools = <<[closed |-> FALSE, in_use |-> 0]>>
    /\ calls = [c \in 1..MaxCallers |-> IdleCall]

(* Positions of a call just before `async with self.pool.acquire()` *)
AcquirePcs == {"status_rollup", "current", "set_status", "completion_calc", "completion"}

(* Positions inside the `async with` block of a helper or of               *)
(* update_project_status, left by the end of the block                      *)
InnerPcs == {"status_rollup_held", "set_status_held", "completion_calc_held",
             "completion_held"}

(* Connections a call holds: that of the block of                           *)
(* update_project_status_from_rollup it is in, and that of an inner block  *)
Held(call) ==
    (IF ~IsNull(call.conn) THEN 1 ELSE 0) + (IF call.pc \in InnerPcs THEN 1 ELSE 0)

(* update_project_status_from_rollup starts: calculate_project_status_rollup *)
UpdateProjectStatusFromRollup(c) ==
    /\ calls[c].pc = "idle"
    /\ calls' = [calls EXCEPT ![c] = [IdleCall EXCEPT !.pc = "status_rollup",
                                                      !.kind = "rollup", !.inst = "db"]]
    /\ UNCHANGED <<books, ledger, response, env, pool, pools>>

(* update_project_status starts *)
UpdateProjectStatus(c) ==
    /\ calls[c].pc = "idle"
    /\ calls' = [calls EXCEPT ![c] = [IdleCall EXCEPT !.pc = "set_status",
                                                      !.kind = "update_status",
                                                      !.inst = "db"]]
    /\ UNCHANGED <<books, ledger, response, env, pool, pools>>

(* self.pool.acquire() returns a connection once one is free *)
DbAcquire(c) ==
    /\ calls[c].pc \in AcquirePcs
    /\ pools[DbPool].in_use < DbMaxSize
    /\ pools' = [pools EXCEPT ![DbPool].in_use = @ + 1]
    /\ calls' = [calls EXCEPT
                    ![c].pc = CASE @ = "status_rollup" -> "status_rollup_held"
                                [] @ = "current" -> "current_held"
                                [] @ = "set_status" -> "set_status_held"
                                [] @ = "completion_calc" -> "completion_calc_held"
                                [] @ = "completion" -> "completion_held",
                    ![c].conn = IF calls[c].pc = "current" THEN Some(DbPool) ELSE @,
                    ![c].acquired = @ + 1]
    /\ UNCHANGED <<books, ledger, response, env, pool>>

(* The end of an inner `async with` block gives its connection back *)
DbRelease(c) ==
    /\ calls[c].pc \in InnerPcs
    /\ pools' = [pools EXCEPT ![DbPool].in_use = @ - 1]
    /\ calls' = [calls EXCEPT
                    ![c].pc = CASE @ = "status_rollup_held" -> "current"
                                [] @ = "set_status_held" -> "completion_calc"
                                [] @ = "completion_calc_held" -> "completion"
                                [] @ = "completion_held" ->
                                       IF calls[c].kind = "rollup" THEN "current_exit"
                                       ELSE "returned"]
    /\ UNCHANGED <<books, ledger, response, env, pool>>

(* Inside the block of update_project_status_from_rollup: a manual state   *)
(* or an unchanged status leaves the block; a changed status is written    *)
(* and update_project_completion is awaited inside the block                *)
CurrentStatus(c) ==
    /\ calls[c].pc = "current_held"
    /\ \/ /\ pools' = [pools EXCEPT ![DbPool].in_use = @ - 1]
          /\ calls' = [calls EXCEPT ![c].pc = "returned", ![c].conn = NULL,
                                    ![c].result = Some(0)]
       \/ /\ calls' = [calls EXCEPT ![c].pc = "completion_calc", ![c].result = Some(1)]
          /\ UNCHANGED pools
    /\ UNCHANGED <<books, ledger, response, env, pool>>

(* update_project_completion has returned; the block of                    *)
(* update_project_status_from_rollup ends                                   *)
RollupExit(c) ==
    /\ calls[c].pc = "current_exit"
    /\ pools' = [pools EXCEPT ![DbPool].in_use = @ - 1]
    /\ calls' = [calls EXCEPT ![c].pc = "returned", ![c].conn = NULL]
    /\ UNCHANGED <<books, ledger, response, env, pool>>

(* The caller has the result *)
DbReturn(c) ==
    /\ calls[c].pc = "returned"
    /\ calls' = [calls EXCEPT ![c] = IdleCall]
    /\ UNCHANGED <<books, ledger, response, env, pool, pools>>

NextRollup ==
    \/ \E c \in DOMAIN calls : UpdateProjectStatusFromRollup(c)
    \/ \E c \in DOMAIN calls : UpdateProjectStatus(c)
    \/ \E c \in DOMAIN calls : DbAcquire(c)
    \/ \E c \in DOMAIN calls : DbRelease(c)
    \/ \E c \in DOMAIN calls : CurrentStatus(c)
    \/ \E c \in DOMAIN calls : RollupExit(c)
    \/ \E c \in DOMAIN calls : DbReturn(c)

SpecRollup == InitRollup /\ [][NextRollup]_vars

(* Every connection of the pool is held by a call that waits for another *)
RollupDeadlock ==
    /\ pools[DbPool].in_use = DbMaxSize
    /\ \A c \in DOMAIN calls : Held(calls[c]) >= 1 => calls[c].pc \in AcquirePcs

(* C23: a call holds at most one connection of the pool, never waits for   *)
(* a connection while it holds one, and so the pool is never used up by    *)
(* calls that all wait for a further connection.                            *)
C23_OneConnection ==
    /\ \A c \in DOMAIN calls :
          /\ Held(calls[c]) <= 1
          /\ calls[c].pc \in AcquirePcs => Held(calls[c]) = 0
    /\ ~RollupDeadlock

----------------------------------------------------------------------------
(* DatabaseOperations.create_project under its retry decorator; books is   *)
(* the books table, one row per project                                     *)

(* The transient classes of retry_on_db_error of database_operations.py *)
DbTransient ==
    {"ConnectionDoesNotExistError", "InterfaceError", "TooManyConnectionsError"}

(* status NOT IN ('completed', 'cancelled', 'published') *)
ActiveProjects(B) ==
    {i \in DOMAIN B : B[i].status \notin {"completed", "cancelled", "published"}}

(* The except clauses of wrapper in database_operations.py, with the       *)
(* attempts counted from 1: range(max_retries) counts them from 0           *)
db_retry_on_db_error(call, e) ==
    IF e.type \in DbTransient /\ call.attempt - 1 < max_retries - 1
    THEN [call EXCEPT !.pc = "sleep", !.error = Some(e),
                      !.waits = Append(@, delay * 2 ^ (call.attempt - 1))]
    ELSE [call EXCEPT !.pc = "raised", !.error = Some(e)]

(* create_project(book, allow_concurrent=False) is called *)
CreateProject(c) ==
    /\ calls[c].pc = "idle"
    /\ calls' = [calls EXCEPT ![c] = [IdleCall EXCEPT !.pc = "acquire",
                                                      !.kind = "create_project",
                                                      !.inst = "db"]]
    /\ UNCHANGED <<books, ledger, response, env, pool, pools>>

(* One attempt begins: async with self.pool.acquire() as conn *)
CpAcquire(c) ==
    /\ calls[c].pc = "acquire"
    /\ pools[DbPool].in_use < DbMaxSize
    /\ pools' = [pools EXCEPT ![DbPool].in_use = @ + 1]
    /\ calls' = [calls EXCEPT ![c].pc = "check", ![c].attempt = @ + 1,
                              ![c].error = NULL, ![c].conn = Some(DbPool),
                              ![c].acquired = @ + 1]
    /\ UNCHANGED <<books, ledger, response, env, pool>>

(* if not allow_concurrent: the SELECT of the active projects; ValueError  *)
(* when there is one                                                        *)
CpCheck(c) ==
    /\ calls[c].pc = "check"
    /\ calls' = [calls EXCEPT ![c] =
                    IF ActiveProjects(books) # {}
                    THEN [@ EXCEPT !.pc = "release",
                                   !.error = Some(Error("ValueError", calls[c].attempt))]
                    ELSE [@ EXCEPT !.pc = "insert"]]
    /\ UNCHANGED <<books, ledger, response, env, pool, pools>>

(* INSERT INTO books ... RETURNING book_id: the row is stored and its id   *)
(* returned; or the connection fails before the store has the statement;   *)
(* or it fails after the store has applied it                               *)
CpInsert(c) ==
    /\ calls[c].pc = "insert"
    /\ LET row == [book_id |-> Len(books) + 1, status |-> "planning", by |-> c]
       IN  \/ /\ books' = Append(books, row)
              /\ calls' = [calls EXCEPT ![c].pc = "release",
                                        ![c].result = Some(row.book_id)]
           \/ /\ calls' = [calls EXCEPT ![c].pc = "release",
                              ![c].error = Some(Error("ConnectionDoesNotExistError",
                                                      calls[c].attempt))]
              /\ \/ UNCHANGED books
                 \/ books' = Append(books, row)
    /\ UNCHANGED <<ledger, response, env, pool, pools>>

(* The async with block ends and the wrapper sees the outcome *)
CpRelease(c) ==
    /\ calls[c].pc = "release"
    /\ pools' = [pools EXCEPT ![DbPool].in_use = @ - 1]
    /\ calls' = [calls EXCEPT ![c] =
                    IF IsNull(@.error)
                    THEN [@ EXCEPT !.pc = "returned", !.conn = NULL]
                    ELSE db_retry_on_db_error([@ EXCEPT !.conn = NULL], Val(@.error))]
    /\ UNCHANGED <<books, ledger, response, env, pool>>

(* await asyncio.sleep(wait_time) is over *)
CpSleep(c) ==
    /\ calls[c].pc = "sleep"
    /\ calls' = [calls EXCEPT ![c].pc = "acquire"]
    /\ UNCHANGED <<books, ledger, response, env, pool, pools>>

NextProjects ==
    \/ \E c \in DOMAIN calls : CreateProject(c)
    \/ \E c \in DOMAIN calls : CpAcquire(c)
    \/ \E c \in DOMAIN calls : CpCheck(c)
    \/ \E c \in DOMAIN calls : CpInsert(c)
    \/ \E c \in DOMAIN calls : CpRelease(c)
    \/ \E c \in DOMAIN calls : CpSleep(c)

SpecProjects == InitRollup /\ [][NextProjects]_vars

(* Rows of books the call of caller c has inserted *)
InsertedBy(c) == {i \in DOMAIN books : books[i].by = c}

(* C24: with allow_concurrent=False, starting without an active project,   *)
(* concurrent calls of create_project leave at most one active project; a  *)
(* call that raises ValueError has inserted nothing.                        *)
C24_OneActiveProject ==
    /\ Cardinality(ActiveProjects(books)) <= 1
    /\ \A c \in DOMAIN calls :
          (calls[c].pc = "raised" /\ Val(calls[c].error).type = "ValueError")
              => InsertedBy(c) = {}

(* C25: whatever event_type filter is given, every event of a trade        *)
(* history belongs to the account and is a BUY or a SELL; a PRICE event is *)
(* never returned.                                                          *)
C25_TradesOnly ==
    response.op = "get_trade_history" =>
        \A k \in DOMAIN response.rows :
            /\ response.rows[k].account_id = response.account_id
            /\ response.rows[k].event_type \in {"BUY", "SELL"}

----------------------------------------------------------------------------
(* DatabaseOperations.get_outline: a decorated operation that awaits the   *)
(* decorated get_outline_structure.  attempt counts the attempts of the    *)
(* inner wrapper within one attempt of the outer wrapper, outer those of   *)
(* the outer wrapper; sent holds the queries the store was given           *)

(* Errors of conn.fetchrow: two transient classes and one that is not *)
OutlineErrors == {"ConnectionDoesNotExistError", "InterfaceError", "UndefinedTableError"}

(* get_outline(book_id) is called *)
GetOutline(c) ==
    /\ calls[c].pc = "idle"
    /\ calls' = [calls EXCEPT ![c] = [IdleCall EXCEPT !.pc = "outer",
                                                      !.kind = "get_outline",
                                                      !.inst = "db"]]
    /\ UNCHANGED <<books, ledger, response, env, pool, pools>>

(* One attempt of the wrapper of get_outline: it awaits                     *)
(* get_outline_structure, whose wrapper starts its own loop                 *)
OuterAttempt(c) ==
    /\ calls[c].pc = "outer"
    /\ calls' = [calls EXCEPT ![c].pc = "acquire", ![c].outer = @ + 1,
                              ![c].attempt = 0, ![c].error = NULL]
    /\ UNCHANGED <<books, ledger, response, env, pool, pools>>

(* One attempt of the wrapper of get_outline_structure begins *)
OutlineAcquire(c) ==
    /\ calls[c].pc = "acquire"
    /\ pools[DbPool].in_use < DbMaxSize
    /\ pools' = [pools EXCEPT ![DbPool].in_use = @ + 1]
    /\ calls' = [calls EXCEPT ![c].pc = "fetch", ![c].attempt = @ + 1,
                              ![c].error = NULL, ![c].conn = Some(DbPool),
                              ![c].acquired = @ + 1]
    /\ UNCHANGED <<books, ledger, response, env, pool>>

(* conn.fetchrow(SELECT ... FROM book_outlines ...) returns or raises *)
OutlineFetch(c) ==
    /\ calls[c].pc = "fetch"
    /\ \/ calls' = [calls EXCEPT ![c].pc = "release",
                                 ![c].sent = Append(@, "book_outlines"),
                                 ![c].result = Some(calls[c].attempt)]
       \/ \E type \in OutlineErrors :
             calls' = [calls EXCEPT ![c].pc = "release",
                                    ![c].sent = Append(@, "book_outlines"),
                                    ![c].error = Some(Error(type, calls[c].attempt))]
    /\ UNCHANGED <<books, ledger, response, env, pool, pools>>

(* The async with block ends; the inner wrapper returns (and with it the   *)
(* outer one), sleeps, or raises to the outer wrapper                       *)
OutlineRelease(c) ==
    /\ calls[c].pc = "release"
    /\ pools' = [pools EXCEPT ![DbPool].in_use = @ - 1]
    /\ calls' = [calls EXCEPT ![c] =
                    IF IsNull(@.error)
                    THEN [@ EXCEPT !.pc = "returned", !.conn = NULL]
                    ELSE LET r == db_retry_on_db_error([@ EXCEPT !.conn = NULL],
                                                       Val(@.error))
                         IN  IF r.pc = "raised" THEN [r EXCEPT !.pc = "inner_raised"]
                             ELSE r]
    /\ UNCHANGED <<books, ledger, response, env, pool>>

(* await asyncio.sleep(wait_time) of the inner wrapper is over *)
OutlineSleep(c) ==
    /\ calls[c].pc = "sleep"
    /\ calls' = [calls EXCEPT ![c].pc = "acquire"]
    /\ UNCHANGED <<books, ledger, response, env, pool, pools>>

(* The except clauses of the wrapper of get_outline see the error the      *)
(* inner wrapper raised                                                     *)
OuterExcept(c) ==
    /\ calls[c].pc = "inner_raised"
    /\ calls' = [calls EXCEPT ![c] =
                    LET r == db_retry_on_db_error([@ EXCEPT !.attempt = calls[c].outer],
                                                  Val(@.error))
                    IN  [r EXCEPT !.attempt = calls[c].attempt,
                                  !.pc = IF r.pc = "sleep" THEN "outer_sleep" ELSE r.pc]]
    /\ UNCHANGED <<books, ledger, response, env, pool, pools>>

(* await asyncio.sleep(wait_time) of the outer wrapper is over *)
OuterSleep(c) ==
    /\ calls[c].pc = "outer_sleep"
    /\ calls' = [calls EXCEPT ![c].pc = "outer"]
    /\ UNCHANGED <<books, ledger, response, env, pool, pools>>

NextOutline ==
    \/ \E c \in DOMAIN calls : GetOutline(c)
    \/ \E c \in DOMAIN calls : OuterAttempt(c)
    \/ \E c \in DOMAIN calls : OutlineAcquire(c)
    \/ \E c \in DOMAIN calls : OutlineFetch(c)
    \/ \E c \in DOMAIN calls : OutlineRelease(c)
    \/ \E c \in DOMAIN calls : OutlineSleep(c)
    \/ \E c \in DOMAIN calls : OuterExcept(c)
    \/ \E c \in DOMAIN calls : OuterSleep(c)

SpecOutline == InitRollup /\ [][NextOutline]_vars

RECURSIVE TotalWait(_)
TotalWait(ws) == IF ws = <<>> THEN 0 ELSE Head(ws) + TotalWait(Tail(ws))

(* C26: one call of get_outline gives the store its query at most 3 times  *)
(* and waits at most twice, 0.5 s and 1.0 s, before it returns or raises.  *)
C26_ThreeQueries ==
    \A c \in DOMAIN calls :
        /\ Len(calls[c].sent) <= 3
        /\ Len(calls[c].waits) <= 2
        /\ TotalWait(calls[c].waits) <= 1500

----------------------------------------------------------------------------
(* insert_event under retry_on_db_error.  sql holds the arguments of the   *)
(* call, sent the ids of the rows the store has stored for it               *)

(* Bodies of POST /events: a trade and a price observation *)
InsertSamples ==
    {req \in InsertEventRequest :
        /\ req.account_id = "A1" /\ req.ticker_symbol = "AAPL" /\ req.event_ts = MaxTs
        /\ req.shares = 1 /\ req.price_per_share = 1
        /\ req.event_type \in {"BUY", "PRICE"}}

(* POST /events and the insert_trade_event tool: insert_event is called *)
PostEvent(c) ==
    /\ calls[c].pc = "idle"
    /\ Inserted(ledger) < MaxInserts
    /\ \E req \in InsertSamples :
          calls' = [calls EXCEPT ![c] =
                       require_db([IdleCall EXCEPT !.kind = "insert_event",
                                                   !.inst = "db_ops",
                                                   !.sql = <<req>>], "acquire")]
    /\ UNCHANGED <<books, ledger, response, env, pool, pools>>

(* conn.fetchrow(INSERT ... RETURNING id): the row is stored and its id    *)
(* returned; or the statement fails with nothing stored; or the connection *)
(* is lost after the store has stored the row, before the id arrives       *)
InsertFetch(c) ==
    /\ calls[c].pc = "fetch"
    /\ calls[c].kind = "insert_event"
    /\ LET call == [calls[c] EXCEPT !.pc = "release"]
           id   == Len(ledger) + 1
       IN  \/ /\ ledger' = insert_event(ledger, calls[c].sql[1])
              /\ calls' = [calls EXCEPT ![c] = [call EXCEPT !.result = Some(id),
                                                            !.sent = Append(@, id)]]
           \/ /\ \E t \in Transient \cup NonTransient :
                    calls' = [calls EXCEPT ![c] =
                                 [call EXCEPT !.error = Some(Error(t, call.attempt))]]
              /\ UNCHANGED ledger
           \/ /\ ledger' = insert_event(ledger, calls[c].sql[1])
              /\ \E t \in Transient :
                    calls' = [calls EXCEPT ![c] =
                                 [call EXCEPT !.error = Some(Error(t, call.attempt)),
                                              !.sent = Append(@, id)]]
    /\ UNCHANGED <<books, response, env, pool, pools>>

NextInsert ==
    \/ \E c \in DOMAIN calls : PostEvent(c)
    \/ \E c \in DOMAIN calls : Acquire(c)
    \/ \E c \in DOMAIN calls : InsertFetch(c)
    \/ \E c \in DOMAIN calls : Release(c)
    \/ \E c \in DOMAIN calls : Sleep(c)
    \/ \E c \in DOMAIN calls : Respond(c)
    \/ \E c \in DOMAIN calls : Finish(c)

SpecInsert == InitLedger /\ [][NextInsert]_vars

(* C27: a call of insert_event that returns an id has added exactly one    *)
(* event, the one with that id; a call that raises has added none.         *)
C27_ExactlyOnce ==
    \A c \in DOMAIN calls :
        calls[c].kind = "insert_event" =>
            /\ calls[c].pc = "returned" => calls[c].sent = <<Val(calls[c].result)>>
            /\ calls[c].pc = "raised" => calls[c].sent = <<>>

----------------------------------------------------------------------------
(* The pool property while initialize validates connectivity *)

(* The calls that have read the pool property of their instance as set and *)
(* go on to use the pool                                                    *)
PoolUsers == {c \in DOMAIN calls : calls[c].pc \in {"acquire", "fetch", "release"}}

(* initialize has assigned self._pool and not finished SELECT 1 on it *)
Unverified(inst) ==
    \E d \in DOMAIN calls : calls[d].inst = inst /\ calls[d].pc = "validate"

(* C28: a caller that has found the pool property of its instance set      *)
(* works on a pool that has passed the SELECT 1 check of initialize and is *)
(* not closed.  Stated for the callers of _get_ops, which run concurrently *)
(* with the initialize of another tool call; the startup of the REST        *)
(* service ends before requests are served.                                 *)
C28_VerifiedPool ==
    \A c \in PoolUsers :
        calls[c].inst = "_ops" =>
        /\ ~Unverified(calls[c].inst)
        /\ ~IsNull(pool[calls[c].inst])
        /\ ~pools[Val(pool[calls[c].inst])].closed

----------------------------------------------------------------------------
(* Shutdown of the REST service *)

(* close: the pool of the instance, if any, is closed and self._pool reset *)
close(inst) ==
    IF IsNull(pool[inst])
    THEN UNCHANGED <<pool, pools>>
    ELSE /\ pools' = [pools EXCEPT ![Val(pool[inst])].closed = TRUE]
         /\ pool' = [pool EXCEPT ![inst] = NULL]

(* The shutdown handler, run once no request is in progress: await         *)
(* db_ops.close().  No handler runs afterwards.  The exit path of the chat *)
(* CLI closes its own instance in the same way                             *)
Shutdown ==
    /\ \A c \in DOMAIN calls : calls[c].pc = "idle"
    /\ close("db_ops")
    /\ calls' = [c \in DOMAIN calls |-> [IdleCall EXCEPT !.pc = "stopped",
                                                         !.kind = "shutdown"]]
    /\ UNCHANGED <<books, ledger, response, env>>

NextShutdown ==
    \/ \E c \in DOMAIN calls : Startup(c)
    \/ \E c \in DOMAIN calls : Operation(c)
    \/ \E c \in DOMAIN calls : ToolOperation(c)
    \/ \E c \in DOMAIN calls : CreatePool(c)
    \/ \E c \in DOMAIN calls : Validate(c)
    \/ \E c \in DOMAIN calls : Acquire(c)
    \/ \E c \in DOMAIN calls : Fetch(c)
    \/ \E c \in DOMAIN calls : Release(c)
    \/ \E c \in DOMAIN calls : Sleep(c)
    \/ \E c \in DOMAIN calls : Respond(c)
    \/ \E c \in DOMAIN calls : Finish(c)
    \/ Shutdown

SpecShutdown == InitOps /\ [][NextShutdown]_vars

Stopped == \A c \in DOMAIN calls : calls[c].pc = "stopped"

(* C29: once the shutdown handler has completed, no pool created by the    *)
(* process is open, the pool of the tools' _ops instance included.         *)
C29_NoOpenPool == Stopped => OpenPools = {}

----------------------------------------------------------------------------
(* The ticker key of insert and lookup.  A ticker string is a sequence of  *)
(* characters here, so that its letter case is part of it                  *)

(* str.upper() *)
upper(s) == [i \in DOMAIN s |-> UpperChar(s[i])]

(* One ticker as callers write it: lower case, upper case, mixed case *)
TickerTexts == Cased(<<"m", "s", "f", "t">>)

(* Bodies of POST /events for a price observation *)
PriceEventRequest ==
    [account_id : {"A1"}, ticker_symbol : TickerTexts, event_ts : 0..MaxTs,
     event_type : {"PRICE"}, shares : {0}, price_per_share : 1..MaxPrice,
     currency : {"USD"}, source : {"api"}]

InitTicker ==
    /\ ledger = <<>>
    /\ response = NoResponse
    /\ InfraReady

(* POST /events: the event is stored with ticker_symbol as given; only     *)
(* event_type is upper-cased                                                *)
InsertPriceEvent ==
    /\ response.op = "none"
    /\ Inserted(ledger) < MaxInserts
    /\ \E req \in PriceEventRequest :
        /\ ledger' = insert_event(ledger, req)
        /\ response' = [op |-> "insert_event", status |-> 201, id |-> Len(ledger) + 1,
                        ticker_symbol |-> req.ticker_symbol]
    /\ UNCHANGED <<books, infra>>

(* GET /ticker/{ticker_symbol}/price: get_latest_price(ticker_symbol.upper()), *)
(* 404 without a row                                                            *)
latest_price(ticker_symbol) ==
    LET rows == LatestPriceRows(ledger, upper(ticker_symbol))
    IN  IF rows = {}
        THEN {[op |-> "latest_price", ticker_symbol |-> ticker_symbol, status |-> 404]}
        ELSE {[op |-> "latest_price", ticker_symbol |-> ticker_symbol, status |-> 200,
               row |-> get_latest_price(ledger, i)] : i \in rows}

TickerPrice ==
    /\ response.op = "none"
    /\ \E t \in TickerTexts : response' \in latest_price(t)
    /\ UNCHANGED <<books, ledger, infra>>

NextTicker ==
    \/ InsertPriceEvent
    \/ TickerPrice
    \/ Return

SpecTicker == InitTicker /\ [][NextTicker]_vars

(* C30: once a PRICE event has been inserted under ticker string t, the    *)
(* price lookup with the same string t answers 200 with a price of that    *)
(* ticker, whatever the letter case of t.                                   *)
C30_SameTickerKey ==
    response.op = "latest_price" =>
        ((\E i \in DOMAIN ledger : ledger[i].ticker_symbol = response.ticker_symbol)
            => response.status = 200)

====
